---- MODULE Spec2Model ----
(***************************************************************************)
(* State-machine model of the enhanced CLI gateway:                        *)
(*   - the MCP server's tool invocation and tool list endpoints and        *)
(*     their hosted/local adapters (server.js, utils/smithery-client.js),  *)
(*   - the chat endpoint /api/agentui/chat and the frontend hook that      *)
(*     consumes it,                                                        *)
(*   - the CLI's chat mode tool loop (handleChatMode),                     *)
(*   - the tool-call processing loop of the documented chat endpoint       *)
(*     (recreate.md) and the example handler.                              *)
(* Suspension points (await on network I/O) separate the steps of a        *)
(* handler; the code between two awaits runs as one step.                  *)
(***************************************************************************)
EXTENDS Integers, Sequences, FiniteSets, TLC

VARIABLES
  env,        \* process.env: which optional credentials are configured
  booted,     \* the startup initialize calls have completed
  connected,  \* smitheryConnected / ordiscanConnected / stockAnalysisConnected
  client,     \* smitheryClient / ordiscanClient / stockAnalysisClient
  calls,      \* the /api/tools/call requests, one record per request slot
  listing,    \* the /api/tools/list request: position, tools collected, response
  wire,       \* the hosted operation each runner awaits: phase, session, reply
  sessions,   \* the transport sessions that are open, named by their opener
  healthy,    \* the hosted services answer every operation from now on
  since,      \* how the invocations completed since then were served
  now,        \* Date.now()
  exchanges,  \* the chat request the server handled last: AI outcome and response
  front,      \* useCLIStreamHandler.handleStreamResponse: position and request in flight
  messages,   \* usePlaygroundStore: messages
  isStreaming,             \* usePlaygroundStore: isStreaming
  streamingErrorMessage,   \* usePlaygroundStore: streamingErrorMessage
  toasts,     \* toast.error calls made for the current submission
  turn,       \* the tool loop of the turn in progress: processor and position
  reply,      \* the AI reply of the turn: parsed toolCalls / response.messages
  toolResults,        \* handleChatMode: toolResults
  hasErrors,          \* handleChatMode: hasErrors
  processedMessages,  \* documented chat endpoint: processedMessages
  emitted,    \* the message sequences sent to the frontend, one per turn
  settledAs,  \* how each tool-call request of the turn settled, by position
  availableTools,  \* CLI index.js: availableTools, by tool name
  parsed,     \* what parseToolCalls returned last, with the name as it was written
  cliResponse,  \* useCLIStreamHandler: response, the backend messages received
  agentUI,      \* useCLIStreamHandler: agentUIMessages, their Agent UI form
  sentHistory,  \* useCLIStreamHandler: history, sent with the next request
  currentMode,    \* CLI index.js: currentMode
  lastMessageId,  \* CLI index.js: lastMessageId
  displayed,      \* the messageId of the chat response the CLI displayed last
  printed         \* what the CLI did with the last input line: output and request posted

serverVars == <<env, booted, connected, client, calls, listing, wire, sessions, healthy, since>>

chatVars == <<now, exchanges, front, messages, isStreaming, streamingErrorMessage, toasts>>

turnVars == <<turn, reply, toolResults, hasErrors, processedMessages, emitted, settledAs>>

commandVars == <<currentMode, lastMessageId, displayed, printed>>

cliVars == <<availableTools, parsed, cliResponse, agentUI, sentHistory, commandVars>>

vars == <<serverVars, chatVars, turnVars, cliVars>>

(* The module-level flags and clients of server.js, by their source names *)
smitheryConnected == connected["smithery"]

ordiscanConnected == connected["ordiscan"]

stockAnalysisConnected == connected["stockAnalysis"]

smitheryClient == client["smithery"]

ordiscanClient == client["ordiscan"]

stockAnalysisClient == client["stockAnalysis"]

----------------------------------------------------------------------------
(* Tool names handled by the switch of /api/tools/call *)

SearchNames == {"brave-search", "brave_web_search"}

LocalSearchNames == {"brave_local_search"}

HustleNames == {"rugcheck", "trending-tokens", "wallet-balance", "crypto-chat"}

OrdiscanNames ==
  {"ordiscan_address_brc20_activity", "ordiscan_address_brc20",
   "ordiscan_brc20_info", "ordiscan_brc20_list", "ordiscan_collection_info",
   "ordiscan_collection_inscriptions", "ordiscan_collections_list",
   "ordiscan_inscription_info", "ordiscan_inscription_traits",
   "ordiscan_inscription_transfers", "ordiscan_inscriptions_activity",
   "ordiscan_inscriptions_detail", "ordiscan_inscriptions_list",
   "ordiscan_address_inscriptions", "ordiscan_address_rare_sats",
   "ordiscan_rune_market", "ordiscan_rune_name_unlock",
   "ordiscan_runes_activity", "ordiscan_address_runes", "ordiscan_runes_list",
   "ordiscan_sat_info", "ordiscan_tx_info",
   "ordiscan_tx_inscription_transfers", "ordiscan_tx_inscriptions",
   "ordiscan_tx_runes", "ordiscan_utxo_rare_sats", "ordiscan_utxo_sat_ranges",
   "ordiscan_address_utxos", "ordiscan_main"}

StockNames ==
  {"get-stock-data", "get_stock_data", "get-stock-alerts", "get_stock_alerts",
   "get-daily-stock-data", "get_daily_stock_data"}

HostedNames_WithFeedback ==
  SearchNames \cup LocalSearchNames \cup OrdiscanNames \cup StockNames \cup {"feedback"}

HostedNames == SearchNames \cup LocalSearchNames \cup OrdiscanNames \cup StockNames

HandledNames == HostedNames \cup HustleNames

(* Names a client may send that no case label matches *)
UnhandledNames == {"feedback", "unknown-tool-xyz"}

RequestNames == HandledNames \cup UnhandledNames

Backends == {"smithery", "ordiscan", "stockAnalysis"}

BackendOf(name) ==
  IF name \in SearchNames \cup LocalSearchNames THEN "smithery"
  ELSE IF name \in OrdiscanNames THEN "ordiscan"
  ELSE "stockAnalysis"

(* Request slots; Slots are the ones the sequential specification uses *)
AllSlots == {"s1", "s2"}

Slots == {"s1"}

(* Environments: SMITHERY stands for SMITHERY_API_KEY and SMITHERY_PROFILE *)
Envs == [SMITHERY : BOOLEAN, BRAVE : BOOLEAN, ORDISCAN : BOOLEAN, ALPHA : BOOLEAN]

(* What a settled hosted callTool delivered: it threw, or it returned text
   that is structured data, free text, or no content at all *)
RawKinds == {"json", "text", "none"}

CallOutcomes == {"throw"} \cup RawKinds

(* What a settled AgentHustle call delivered *)
HustleOutcomes == {"throw", "throwEmpty", "empty", "results"}

(* req.body.params: an object with every required parameter, or one that
   lacks a required parameter *)
ParamKinds == {"complete", "incomplete"}

(* params.<key>, for a key the tool requires *)
Param(params) == IF params = "complete" THEN "value" ELSE "undefined"

(* hosted: the tool names passed to callTool by the request *)
IdleCall ==
  [pc |-> "idle", name |-> "", params |-> "complete", ops |-> <<>>,
   hosted |-> <<>>, response |-> <<>>]

----------------------------------------------------------------------------
(* SmitheryClient *)

NewClient(exists) == [exists |-> exists, isAvailable |-> exists]

ClientIsAvailable(cl, b, e) == cl[b].isAvailable /\ e.SMITHERY

(* initializeSmithery / initializeOrdiscan / initializeStockAnalysis: the
   guards passed before the client's initialize() is awaited *)
CanProbe(b, e, cl) ==
  /\ e.SMITHERY
  /\ (b = "ordiscan") => (e.ORDISCAN /\ cl[b].exists)
  /\ (b = "stockAnalysis") => (e.ALPHA /\ cl[b].exists)

(* The effect of a settled initialize(): the server's flag takes the
   probe's result; a failed probe clears the client's flag in its catch
   block, a successful one has set it before its session was closed *)
ProbeSettled_All(b, ok, conn, cl) ==
  [connected |-> IF ok THEN [conn EXCEPT ![b] = TRUE] ELSE [o \in Backends |-> FALSE],
   client |-> IF ok THEN cl ELSE [cl EXCEPT ![b].isAvailable = FALSE]]

ProbeSettled(b, ok, conn, cl) ==
  [connected |-> [conn EXCEPT ![b] = ok],
   client |-> IF ok THEN cl ELSE [cl EXCEPT ![b].isAvailable = FALSE]]

----------------------------------------------------------------------------
(* Responses of /api/tools/call *)

ErrorText_NoDefault(msg, name) == msg

ErrorText(msg, name) == IF msg = "" THEN "Failed to execute tool" ELSE msg

Success(c, result) ==
  [c EXCEPT !.pc = "done",
            !.response = Append(@, [status |-> 200,
                body |-> [success |-> TRUE, result |-> result, tool |-> c.name]])]

Failure(c, msg) ==
  [c EXCEPT !.pc = "done",
            !.response = Append(@, [status |-> 500,
                body |-> [success |-> FALSE, error |-> ErrorText(msg, c.name),
                          tool |-> c.name]])]

Logged(c, op, ok, net) ==
  [c EXCEPT !.ops = Append(@, [op |-> op, ok |-> ok, net |-> net])]

----------------------------------------------------------------------------
(* The switch of /api/tools/call, from the probe onward *)

HostedFailed_KeepFlag(c, conn, cl, e) ==
  IF c.name \in SearchNames
  THEN IF e.BRAVE
       THEN [call |-> [c EXCEPT !.pc = "fallback"], connected |-> conn, client |-> cl]
       ELSE [call |-> Failure(c, "Smithery Brave Search failed and no local API key available"),
             connected |-> conn, client |-> cl]
  ELSE [call |-> Failure(c, "hosted tool failed"), connected |-> conn, client |-> cl]

(* catch blocks of the hosted branches: the flag is cleared, and only the web
   search falls back to the local Brave client *)
HostedFailed(c, conn, cl, e) ==
  LET b == BackendOf(c.name)
      conn2 == [conn EXCEPT ![b] = FALSE]
  IN  IF c.name \in SearchNames
      THEN IF e.BRAVE
           THEN [call |-> [c EXCEPT !.pc = "fallback"], connected |-> conn2, client |-> cl]
           ELSE [call |-> Failure(c, "Smithery Brave Search failed and no local API key available"),
                 connected |-> conn2, client |-> cl]
      ELSE [call |-> Failure(c, "hosted tool failed"), connected |-> conn2, client |-> cl]

(* name.replace(/_/g, '-') on the stock tool names *)
Hyphenated(name) ==
  CASE name \in {"get-stock-data", "get_stock_data"} -> "get-stock-data"
    [] name \in {"get-stock-alerts", "get_stock_alerts"} -> "get-stock-alerts"
    [] name \in {"get-daily-stock-data", "get_daily_stock_data"} -> "get-daily-stock-data"
    [] OTHER -> name

(* The tool name the branch passes to callTool *)
HostedToolName(name) ==
  IF name \in SearchNames THEN "brave_web_search"
  ELSE IF name \in StockNames THEN Hyphenated(name)
  ELSE name

(* callTool's availability guard, evaluated before any session is opened *)
StartCallTool(c, conn, cl, e) ==
  LET b == BackendOf(c.name)
      d == [c EXCEPT !.hosted = Append(@, HostedToolName(c.name))]
  IN  IF cl[b].isAvailable
      THEN [call |-> [d EXCEPT !.pc = "call"], connected |-> conn, client |-> cl]
      ELSE HostedFailed(Logged(d, "callTool", FALSE, FALSE), conn, cl, e)

(* The branch taken once (xConnected || await initializeX()) is known *)
AfterProbe(c, probe, conn, cl, e) ==
  IF c.name \in SearchNames
  THEN IF probe /\ c.name = "brave_web_search"
       THEN StartCallTool(c, conn, cl, e)
       ELSE IF e.BRAVE
            THEN [call |-> [c EXCEPT !.pc = "local"], connected |-> conn, client |-> cl]
            ELSE [call |-> Failure(c, "Brave Search not available"),
                  connected |-> conn, client |-> cl]
  ELSE IF probe
       THEN IF (c.name \in OrdiscanNames /\ ~e.ORDISCAN)
               \/ (c.name \in StockNames /\ ~e.ALPHA)
            THEN HostedFailed(c, conn, cl, e)
            ELSE StartCallTool(c, conn, cl, e)
       ELSE [call |-> Failure(c, "not available - no connection"),
             connected |-> conn, client |-> cl]

ParsedData_NoWrap(raw) == IF raw = "json" THEN "parsed" ELSE "empty"

(* Result built from a hosted reply *)
ParsedData(raw) ==
  IF raw = "json" THEN "parsed" ELSE IF raw = "text" THEN "wrapped" ELSE "empty"

(* name.includes(part), for the parts the stock branch tests *)
Includes(name, part) ==
  CASE part = "stock-data" -> name \in {"get-stock-data", "get-daily-stock-data"}
    [] part = "daily" -> name \in {"get-daily-stock-data", "get_daily_stock_data"}
    [] part = "alerts" -> name \in {"get-stock-alerts", "get_stock_alerts"}
    [] part = "address" ->
         name \in {"ordiscan_address_brc20_activity", "ordiscan_address_brc20",
            "ordiscan_address_inscriptions", "ordiscan_address_rare_sats",
            "ordiscan_address_runes", "ordiscan_address_utxos"}
    [] part = "inscription" ->
         name \in {"ordiscan_collection_inscriptions", "ordiscan_inscription_info",
            "ordiscan_inscription_traits", "ordiscan_inscription_transfers",
            "ordiscan_inscriptions_activity", "ordiscan_inscriptions_detail",
            "ordiscan_inscriptions_list", "ordiscan_address_inscriptions",
            "ordiscan_tx_inscription_transfers", "ordiscan_tx_inscriptions"}
    [] part = "brc20" ->
         name \in {"ordiscan_address_brc20_activity", "ordiscan_address_brc20",
            "ordiscan_brc20_info", "ordiscan_brc20_list"}
    [] part = "rune" ->
         name \in {"ordiscan_rune_market", "ordiscan_rune_name_unlock",
            "ordiscan_runes_activity", "ordiscan_address_runes",
            "ordiscan_runes_list", "ordiscan_tx_runes"}
    [] part = "collection" ->
         name \in {"ordiscan_collection_info", "ordiscan_collection_inscriptions",
            "ordiscan_collections_list"}
    [] part = "tx" ->
         name \in {"ordiscan_tx_info", "ordiscan_tx_inscription_transfers",
            "ordiscan_tx_inscriptions", "ordiscan_tx_runes",
            "ordiscan_utxo_rare_sats", "ordiscan_utxo_sat_ranges",
            "ordiscan_address_utxos"}
    [] part = "utxo" ->
         name \in {"ordiscan_utxo_rare_sats", "ordiscan_utxo_sat_ranges",
            "ordiscan_address_utxos"}
    [] part = "sat" ->
         name \in {"ordiscan_address_rare_sats", "ordiscan_sat_info",
            "ordiscan_utxo_rare_sats", "ordiscan_utxo_sat_ranges"}
    [] OTHER -> FALSE

(* Stock Analysis: the result format chosen by the tool name *)
StockResult(name, raw, params) ==
  IF Includes(name, "stock-data") \/ Includes(name, "daily")
  THEN [symbol |-> Param(params), data |-> ParsedData(raw), tool |-> name,
        source |-> "stock-analysis"]
  ELSE IF Includes(name, "alerts")
  THEN [symbol |-> Param(params), alerts |-> ParsedData(raw), tool |-> name,
        source |-> "stock-analysis"]
  ELSE [data |-> ParsedData(raw), tool |-> name, source |-> "stock-analysis"]

(* Ordiscan: "Format the result consistently based on tool type"; the
   identifying key holds the params expression it is read from *)
OrdiscanResult(name, raw, params) ==
  LET common == [source |-> "ordiscan", tool |-> name, data |-> ParsedData(raw)]
  IN  IF Includes(name, "address") THEN common @@ [address |-> "params.address"]
      ELSE IF Includes(name, "inscription")
      THEN common @@ [inscription |-> "params.id || params.number"]
      ELSE IF Includes(name, "brc20") THEN common @@ [token |-> "params.tick"]
      ELSE IF Includes(name, "rune") THEN common @@ [rune |-> "params.name || params.runeName"]
      ELSE IF Includes(name, "collection") THEN common @@ [collection |-> "params.slug"]
      ELSE IF Includes(name, "tx") THEN common @@ [transaction |-> "params.txid"]
      ELSE IF Includes(name, "utxo") THEN common @@ [utxo |-> "params.utxo"]
      ELSE IF Includes(name, "sat") THEN common @@ [satoshi |-> "params.ordinal"]
      ELSE common

HostedResult(name, raw, params) ==
  IF name \in SearchNames \cup LocalSearchNames
  THEN [source |-> "smithery", results |-> IF raw = "none" THEN "none" ELSE "blocks"]
  ELSE IF name \in OrdiscanNames
       THEN OrdiscanResult(name, raw, params)
       ELSE StockResult(name, raw, params)

(* Result of the AgentHustle-backed tools *)
HustleSettled(c, outcome) ==
  LET threw == outcome \in {"throw", "throwEmpty"}
      msg == IF outcome = "throw" THEN "request failed" ELSE ""
  IN  IF c.name = "rugcheck"
      THEN IF threw THEN Failure(c, msg)
           ELSE IF outcome = "results" THEN Success(c, [toolResult |-> "rugcheck"])
           ELSE Success(c, [error |-> "No results from rugcheck"])
      ELSE IF c.name = "trending-tokens"
      THEN IF threw THEN Success(c, [tokens |-> <<>>, message |-> "Error: " \o msg])
           ELSE IF outcome = "results" THEN Success(c, [toolResult |-> "birdeye-trending"])
           ELSE Success(c, [tokens |-> <<>>, message |-> "Unable to fetch trending tokens"])
      ELSE IF c.name = "wallet-balance"
      THEN IF threw THEN Success(c, [balances |-> <<>>, message |-> "Error: " \o msg])
           ELSE IF outcome = "results" THEN Success(c, [toolResult |-> "wallet-balance"])
           ELSE Success(c, [balances |-> <<>>, message |-> "Unable to fetch wallet balance"])
      ELSE IF threw
           THEN Success(c, [response |-> "Sorry, I encountered an error: " \o msg,
                            toolsUsed |-> <<>>])
           ELSE Success(c, [response |-> "content", toolsUsed |-> <<>>])

----------------------------------------------------------------------------
(* Hosted operations.  initialize, listTools and callTool each run
   createFreshConnection, one request on the session it returned, and
   client.close() in a finally block; each await is a step. *)

Runners == AllSlots \cup {"list"}

(* The hosted sections of /api/tools/list, in order *)
BackendOrder == <<"smithery", "ordiscan", "stockAnalysis">>

IdleWire == [phase |-> "none", session |-> "none", result |-> "none"]

Connecting == [phase |-> "connecting", session |-> "none", result |-> "none"]

OpenSession_Shared(r, open) == IF open = {} THEN r ELSE CHOOSE x \in open : TRUE

(* createFreshConnection: a new transport and client, local to the operation *)
OpenSession(r, open) == r

(* finally { if (client) await client.close() } *)
CloseSession(w, open) == open \ {w.session}

(* A request awaits a hosted operation exactly when it stands at
   initialize() or at a callTool that passed the availability guard *)
WireOf(c) == IF c.pc \in {"init", "call"} THEN Connecting ELSE IdleWire

(* The operation a runner awaits, and the client it runs on *)
OpOf(r) ==
  IF r = "list" THEN "listTools"
  ELSE IF calls[r].pc = "init" THEN "initialize" ELSE "callTool"

BackendAt(r) ==
  IF r = "list" THEN BackendOrder[listing.at] ELSE BackendOf(calls[r].name)

(* What the request on the open session can deliver *)
UseOutcomes(op) == IF op = "callTool" THEN CallOutcomes ELSE {"throw", "ok"}

(* No request is between its arrival and its response *)
Quiescent ==
  /\ \A s \in AllSlots : calls[s].pc \in {"idle", "done"}
  /\ listing.pc \in {"idle", "done"}

(* The awaited operation settles: it threw in createFreshConnection, or its
   session has been closed after the request on it settled *)
Settles(r, ok) ==
  \/ wire[r].phase = "connecting" /\ ~ok /\ ~healthy
  \/ wire[r].phase = "closing" /\ ok = (wire[r].result # "throw")

(* The catch block of listTools / callTool runs before the finally block
   when the request on the session threw, and at the settling step when
   createFreshConnection threw *)
CaughtAtSettle_Keep(r, b, cl) == cl

CaughtAtSettle(r, b, cl) ==
  IF wire[r].phase = "connecting" THEN [cl EXCEPT ![b].isAvailable = FALSE] ELSE cl

----------------------------------------------------------------------------
(* /api/tools/list *)

SourceTag(b) ==
  IF b = "smithery" THEN "smithery"
  ELSE IF b = "ordiscan" THEN "ordiscan" ELSE "stock-analysis"

(* The descriptors built in: name, description and required parameter *)
LocalTools ==
  <<[name |-> "rugcheck", description |-> "text", parameters |-> "token"],
    [name |-> "trending-tokens", description |-> "text", parameters |-> "none"],
    [name |-> "wallet-balance", description |-> "text", parameters |-> "address"],
    [name |-> "crypto-chat", description |-> "text", parameters |-> "message"]>>

LocalBrave ==
  [name |-> "brave-search", description |-> "text", parameters |-> "query",
   source |-> "local"]

(* The tools a hosted service reports *)
RemoteTools(b) ==
  IF b = "smithery" THEN <<"brave_web_search", "brave_local_search">>
  ELSE IF b = "ordiscan" THEN <<"ordiscan_main">>
  ELSE <<"get-stock-data">>

Described_Reversed(b) ==
  [i \in 1..Len(RemoteTools(b)) |->
     [name |-> RemoteTools(b)[Len(RemoteTools(b)) + 1 - i],
      description |-> "tool.description", parameters |-> "tool.inputSchema",
      source |-> SourceTag(b)]]

Described_FirstOnly(b) ==
  <<[name |-> RemoteTools(b)[1], description |-> "tool.description",
     parameters |-> "tool.inputSchema", source |-> SourceTag(b)]>>

(* smitheryTools.forEach(tool => tools.push({..., source})) *)
Described(b) ==
  [i \in 1..Len(RemoteTools(b)) |->
     [name |-> RemoteTools(b)[i], description |-> "tool.description",
      parameters |-> "tool.inputSchema", source |-> SourceTag(b)]]

IdleListing == [pc |-> "idle", at |-> 0, tools |-> <<>>, response |-> <<>>]

(* The handler from the section of backend i up to its next await, or to
   res.json({ tools }) *)
RECURSIVE ListFrom(_, _, _, _, _)
ListFrom(i, tools, conn, cl, e) ==
  IF i > Len(BackendOrder)
  THEN LET all == IF e.BRAVE /\ ~conn["smithery"] THEN Append(tools, LocalBrave) ELSE tools
       IN  [pc |-> "done", at |-> 0, tools |-> all,
            response |-> <<[status |-> 200, body |-> [tools |-> all]]>>]
  ELSE IF conn[BackendOrder[i]] /\ ClientIsAvailable(cl, BackendOrder[i], e)
       THEN [pc |-> "listing", at |-> i, tools |-> tools, response |-> <<>>]
       ELSE ListFrom(i + 1, tools, conn, cl, e)

----------------------------------------------------------------------------
(* How an invocation completed after the services became healthy *)

MaxSince == 3

HostedSources == {"smithery", "ordiscan", "stock-analysis"}

ServedBy(c) ==
  LET body == c.response[1].body
  IN  IF body.success /\ "source" \in DOMAIN body.result
         /\ body.result.source \in HostedSources
      THEN "hosted" ELSE "other"

SinceAfter(c) ==
  IF healthy /\ c.pc = "done"
  THEN Append(since, [name |-> c.name, by |-> ServedBy(c)])
  ELSE since

(* A failed local search is reported, a successful one is the result *)
AfterLocal_Retry(c, ok, src) ==
  IF ok THEN Success(c, [source |-> src, results |-> "web"])
  ELSE [c EXCEPT !.pc = "local"]

AfterLocal(c, ok, src) ==
  IF ok THEN Success(c, [source |-> src, results |-> "web"])
  ELSE Failure(c, IF src = "local" THEN "Local Brave Search failed"
                  ELSE "Brave Search API error")

----------------------------------------------------------------------------
ServerInit ==
  /\ env \in Envs
  /\ booted = FALSE
  /\ connected = [b \in Backends |-> FALSE]
  /\ client = [b \in Backends |->
                 IF b = "smithery" THEN NewClient(TRUE)
                 ELSE IF b = "ordiscan" THEN NewClient(env.ORDISCAN)
                 ELSE NewClient(env.ALPHA)]
  /\ calls = [s \in AllSlots |-> IdleCall]
  /\ listing = IdleListing
  /\ wire = [r \in Runners |-> IdleWire]
  /\ sessions = {}
  /\ healthy = FALSE
  /\ since = <<>>

(* The server with no optional credential, for the specifications that do
   not exercise /api/tools/call *)
ServerQuiet ==
  /\ env = [SMITHERY |-> FALSE, BRAVE |-> FALSE, ORDISCAN |-> FALSE, ALPHA |-> FALSE]
  /\ booted = FALSE
  /\ connected = [b \in Backends |-> FALSE]
  /\ client = [b \in Backends |-> NewClient(b = "smithery")]
  /\ calls = [s \in AllSlots |-> IdleCall]
  /\ listing = IdleListing
  /\ wire = [r \in Runners |-> IdleWire]
  /\ sessions = {}
  /\ healthy = FALSE
  /\ since = <<>>

(* await initializeSmithery(); await initializeOrdiscan();
   await initializeStockAnalysis(): before the server listens, so no request
   runs between their steps; each probe closes its session before it settles *)
Startup ==
  /\ ~booted
  /\ booted' = TRUE
  /\ \E ok \in [Backends -> BOOLEAN] :
       /\ connected' = [b \in Backends |->
            IF CanProbe(b, env, client)
            THEN ProbeSettled(b, ok[b], connected, client).connected[b]
            ELSE connected[b]]
       /\ client' = [b \in Backends |->
            IF CanProbe(b, env, client)
            THEN ProbeSettled(b, ok[b], connected, client).client[b]
            ELSE client[b]]
  /\ UNCHANGED <<cliVars, env, calls, listing, wire, sessions, healthy, since, chatVars, turnVars>>

(* await client.connect(transport) succeeds: the operation holds a session *)
SessionOpened(r) ==
  /\ wire[r].phase = "connecting"
  /\ LET own == OpenSession(r, sessions)
     IN  /\ sessions' = sessions \cup {own}
         /\ wire' = [wire EXCEPT ![r] = [phase |-> "using", session |-> own,
                                         result |-> "none"]]
  /\ UNCHANGED <<cliVars, env, booted, connected, client, calls, listing, healthy, since,
                 chatVars, turnVars>>

(* await client.listTools() / client.callTool() on the session settles.
   initialize sets _isAvailable on success; listTools and callTool clear it
   in their catch block; then the finally block awaits client.close() *)
Answered(r, outcome) ==
  /\ wire[r].phase = "using"
  /\ outcome \in UseOutcomes(OpOf(r))
  /\ healthy => outcome # "throw"
  /\ wire' = [wire EXCEPT ![r].phase = "closing", ![r].result = outcome]
  /\ LET b == BackendAt(r)
     IN  client' =
           IF OpOf(r) = "initialize"
           THEN IF outcome # "throw" THEN [client EXCEPT ![b].isAvailable = TRUE]
                ELSE client
           ELSE IF outcome = "throw" THEN [client EXCEPT ![b].isAvailable = FALSE]
                ELSE client
  /\ UNCHANGED <<cliVars, env, booted, connected, calls, listing, sessions, healthy, since,
                 chatVars, turnVars>>

(* A tool invocation arrives and runs to its first await *)
Receive(s, name, params) ==
  /\ booted
  /\ calls[s].pc \in {"idle", "done"}
  /\ healthy => (Quiescent /\ s \in Slots /\ Len(since) < MaxSince)
  /\ LET c == [pc |-> "start", name |-> name, params |-> params, ops |-> <<>>,
               hosted |-> <<>>, response |-> <<>>]
         b == BackendOf(name)
         h == Logged(c, "readFlag", connected[b], FALSE)
         n == IF name \in HostedNames
              THEN IF connected[b] THEN AfterProbe(h, TRUE, connected, client, env)
                   ELSE IF CanProbe(b, env, client)
                        THEN [call |-> [h EXCEPT !.pc = "init"],
                              connected |-> connected, client |-> client]
                        ELSE AfterProbe(h, FALSE, connected, client, env)
              ELSE IF name \in HustleNames
                   THEN [call |-> [c EXCEPT !.pc = "hustle"],
                         connected |-> connected, client |-> client]
                   ELSE [call |-> Failure(c, "Unknown tool: " \o name),
                         connected |-> connected, client |-> client]
     IN  /\ calls' = [calls EXCEPT ![s] = n.call]
         /\ connected' = n.connected
         /\ client' = n.client
         /\ wire' = [wire EXCEPT ![s] = WireOf(n.call)]
         /\ since' = SinceAfter(n.call)
  /\ UNCHANGED <<cliVars, env, booted, listing, sessions, healthy, chatVars, turnVars>>

(* The initialize() awaited by the request settles *)
InitDone(s, ok) ==
  /\ calls[s].pc = "init"
  /\ Settles(s, ok)
  /\ LET b == BackendOf(calls[s].name)
         p == ProbeSettled(b, ok, connected, client)
         n == AfterProbe(Logged(calls[s], "initialize", ok, TRUE), ok,
                         p.connected, p.client, env)
     IN  /\ calls' = [calls EXCEPT ![s] = n.call]
         /\ connected' = n.connected
         /\ client' = n.client
         /\ wire' = [wire EXCEPT ![s] = WireOf(n.call)]
         /\ since' = SinceAfter(n.call)
  /\ sessions' = CloseSession(wire[s], sessions)
  /\ UNCHANGED <<cliVars, env, booted, listing, healthy, chatVars, turnVars>>

(* The hosted callTool awaited by the request settles *)
CallDone(s, outcome) ==
  /\ calls[s].pc = "call"
  /\ Settles(s, outcome # "throw")
  /\ wire[s].phase = "closing" => outcome = wire[s].result
  /\ LET c == Logged(calls[s], "callTool", outcome # "throw", TRUE)
         b == BackendOf(c.name)
         n == IF outcome = "throw"
              THEN HostedFailed(c, connected, CaughtAtSettle(s, b, client), env)
              ELSE [call |-> Success(c, HostedResult(c.name, outcome, c.params)),
                    connected |-> connected, client |-> client]
     IN  /\ calls' = [calls EXCEPT ![s] = n.call]
         /\ connected' = n.connected
         /\ client' = n.client
         /\ wire' = [wire EXCEPT ![s] = WireOf(n.call)]
         /\ since' = SinceAfter(n.call)
  /\ sessions' = CloseSession(wire[s], sessions)
  /\ UNCHANGED <<cliVars, env, booted, listing, healthy, chatVars, turnVars>>

(* The local BraveSearchClient.search awaited by the request settles *)
LocalDone(s, ok) ==
  /\ calls[s].pc \in {"local", "fallback"}
  /\ LET c == Logged(calls[s], "braveSearch", ok, TRUE)
         src == IF calls[s].pc = "local" THEN "local" ELSE "local-fallback"
         n == AfterLocal(c, ok, src)
     IN  /\ calls' = [calls EXCEPT ![s] = n]
         /\ since' = SinceAfter(n)
  /\ UNCHANGED <<cliVars, env, booted, connected, client, listing, wire, sessions, healthy,
                 chatVars, turnVars>>

(* The AgentHustle call awaited by the request settles *)
HustleDone(s, outcome) ==
  /\ calls[s].pc = "hustle"
  /\ LET n == HustleSettled(Logged(calls[s], "hustle",
                                   outcome \notin {"throw", "throwEmpty"}, TRUE),
                            outcome)
     IN  /\ calls' = [calls EXCEPT ![s] = n]
         /\ since' = SinceAfter(n)
  /\ UNCHANGED <<cliVars, env, booted, connected, client, listing, wire, sessions, healthy,
                 chatVars, turnVars>>

(* A list request arrives and runs to its first await *)
ListTools ==
  /\ booted
  /\ listing.pc \in {"idle", "done"}
  /\ healthy => Quiescent
  /\ LET n == ListFrom(1, LocalTools, connected, client, env)
     IN  /\ listing' = n
         /\ wire' = [wire EXCEPT !["list"] =
                       IF n.pc = "listing" THEN Connecting ELSE IdleWire]
  /\ UNCHANGED <<cliVars, env, booted, connected, client, calls, sessions, healthy, since,
                 chatVars, turnVars>>

(* The listTools() awaited by the list request settles *)
ListDone(ok) ==
  /\ listing.pc = "listing"
  /\ Settles("list", ok)
  /\ LET b == BackendOrder[listing.at]
         conn == IF ok THEN connected ELSE [connected EXCEPT ![b] = FALSE]
         cl == IF ok THEN client ELSE CaughtAtSettle("list", b, client)
         tools == IF ok THEN listing.tools \o Described(b) ELSE listing.tools
         n == ListFrom(listing.at + 1, tools, conn, cl, env)
     IN  /\ listing' = n
         /\ connected' = conn
         /\ client' = cl
         /\ wire' = [wire EXCEPT !["list"] =
                       IF n.pc = "listing" THEN Connecting ELSE IdleWire]
  /\ sessions' = CloseSession(wire["list"], sessions)
  /\ UNCHANGED <<cliVars, env, booted, calls, healthy, since, chatVars, turnVars>>

(* From here on the hosted services answer every operation, and requests
   arrive one at a time *)
Recover ==
  /\ booted
  /\ ~healthy
  /\ Quiescent
  /\ healthy' = TRUE
  /\ since' = <<>>
  /\ UNCHANGED <<cliVars, env, booted, connected, client, calls, listing, wire, sessions,
                 chatVars, turnVars>>

----------------------------------------------------------------------------
(* The chat endpoint /api/agentui/chat of server.js *)

MaxNow == 2

AiContents == {"", "Here is the answer"}

AiMessages == {"", "alternative text"}

AiToolCalls ==
  {<<>>,
   <<[name |-> "brave-search"]>>,
   <<[name |-> "rugcheck"], [name |-> "brave-search"]>>}

(* What client.chat delivers: a reply (content and message may be empty or
   absent, toolCalls may be absent or empty), or a thrown error *)
AiOutcomes ==
  [threw : {FALSE}, content : AiContents, message : AiMessages, toolCalls : AiToolCalls]
    \cup {[threw |-> TRUE, error |-> "Request failed"]}

DefaultContent == "I received your message and I'm here to help!"

ResponseContent_MessageFirst(ai) ==
  IF ai.message # "" THEN ai.message
  ELSE IF ai.content # "" THEN ai.content
  ELSE DefaultContent

(* aiResponse.content || aiResponse.message || '...' *)
ResponseContent(ai) ==
  IF ai.content # "" THEN ai.content
  ELSE IF ai.message # "" THEN ai.message
  ELSE DefaultContent

HandleAgentUiRequest_Rethrow(ai, t) ==
  IF ai.threw
  THEN [kind |-> "throw", error |-> ai.error]
  ELSE [kind |-> "return", isArray |-> FALSE,
        msgs |-> <<[role |-> "assistant", content |-> ResponseContent(ai),
                    created_at |-> t, messageId |-> "messageId", usage |-> "usage"]>>]

(* handleAgentUiRequest: what it returns (one message object, never an
   array) or throws, given what client.chat delivered at time t *)
HandleAgentUiRequest(ai, t) ==
  IF ai.threw
  THEN [kind |-> "return", isArray |-> FALSE,
        msgs |-> <<[role |-> "assistant",
                    content |-> "Sorry, I encountered an error: " \o ai.error,
                    created_at |-> t, error |-> TRUE]>>]
  ELSE [kind |-> "return", isArray |-> FALSE,
        msgs |-> <<[role |-> "assistant", content |-> ResponseContent(ai),
                    created_at |-> t, messageId |-> "messageId", usage |-> "usage"]>>]

(* agentUiResponse.error: undefined on an array *)
CarriesError(r) ==
  /\ ~r.isArray
  /\ "error" \in DOMAIN r.msgs[1]
  /\ r.msgs[1].error

(* app.post('/api/agentui/chat'): the HTTP response; the body is msgs[1]
   when isArray is false, the array msgs otherwise *)
AgentUiChat(ai, t) ==
  LET r == HandleAgentUiRequest(ai, t)
  IN  IF r.kind = "throw"
      THEN [status |-> 500, isArray |-> FALSE,
            msgs |-> <<[role |-> "assistant",
                        content |-> "Sorry, an error occurred on the server: " \o r.error,
                        created_at |-> t]>>]
      ELSE [status |-> IF CarriesError(r) THEN 500 ELSE 200,
            isArray |-> r.isArray, msgs |-> r.msgs]

----------------------------------------------------------------------------
(* The frontend: ChatInput.handleSubmit, useCLIStreamHandler, cli-backend *)

MaxMessages == 4

Inputs == {"", "   ", "hello"}

Trim(str) == IF str = "   " THEN "" ELSE str

IdleFront == [pc |-> "idle", ended |-> "none"]

(* JSON.parse of a tool call's arguments text, and JSON.stringify of the
   value: the text comes back without its insignificant white space *)
JsonParse(text) ==
  CASE text = "{}" -> "empty object"
    [] text \in {"{\"query\":\"cats\"}", "{ \"query\": \"cats\" }"} -> "object with query cats"

JsonStringify(value) ==
  CASE value = "empty object" -> "{}"
    [] value = "object with query cats" -> "{\"query\":\"cats\"}"

(* convertCLIMessagesToAgentUI, for one message *)
ConvertCLIMessage(msg) ==
  LET agentUIMessage ==
        [role |-> IF msg.role = "assistant" THEN "agent" ELSE msg.role,
         content |-> msg.content,
         created_at |-> msg.created_at,
         streamingError |-> FALSE]
  IN  IF msg.role = "tool" /\ "tool_call_id" \in DOMAIN msg /\ "tool_name" \in DOMAIN msg
      THEN agentUIMessage @@
             [tool_calls |-> <<[role |-> "tool", content |-> msg.content,
                                tool_call_id |-> msg.tool_call_id,
                                tool_name |-> msg.tool_name,
                                tool_args |-> "empty object",
                                tool_call_error |-> FALSE,
                                created_at |-> msg.created_at]>>]
      ELSE IF "tool_calls" \in DOMAIN msg /\ Len(msg.tool_calls) > 0
      THEN agentUIMessage @@
             [tool_calls |-> [e \in 1..Len(msg.tool_calls) |->
                [role |-> "tool", content |-> msg.tool_calls[e].function.arguments,
                 tool_call_id |-> msg.tool_calls[e].id,
                 tool_name |-> msg.tool_calls[e].function.name,
                 tool_args |-> JsonParse(msg.tool_calls[e].function.arguments),
                 tool_call_error |-> FALSE,
                 created_at |-> msg.created_at]]]
      ELSE agentUIMessage

ConvertCLIMessagesToAgentUI(msgs) == [i \in 1..Len(msgs) |-> ConvertCLIMessage(msgs[i])]

(* convertAgentUIHistoryToCLI, for one message; t is Date.now() *)
ConvertAgentUIMessage(msg, t) ==
  LET cliMessage ==
        [role |-> IF msg.role = "agent" THEN "assistant" ELSE msg.role,
         content |-> msg.content,
         created_at |-> IF msg.created_at \in Nat THEN msg.created_at ELSE t]
  IN  IF "tool_calls" \in DOMAIN msg /\ Len(msg.tool_calls) > 0
      THEN LET found == SelectSeq(msg.tool_calls, LAMBDA tc : tc.role # "tool")
           IN  IF Len(found) > 0
               THEN cliMessage @@
                      [tool_calls |-> <<[id |-> found[1].tool_call_id, type |-> "function",
                                         function |-> [name |-> found[1].tool_name,
                                                       arguments |-> JsonStringify(found[1].tool_args)]]>>]
               ELSE [role |-> "tool",
                     content |-> msg.tool_calls[1].content,
                     created_at |-> cliMessage.created_at,
                     tool_call_id |-> msg.tool_calls[1].tool_call_id,
                     tool_name |-> msg.tool_calls[1].tool_name]
      ELSE cliMessage

ConvertAgentUIHistoryToCLI(msgs, t) ==
  [i \in 1..Len(msgs) |-> ConvertAgentUIMessage(msgs[i], t)]

IsErrorAgent(m) == m.role = "agent" /\ "streamingError" \in DOMAIN m /\ m.streamingError

CleanUp_Keep(ms) == ms

(* "Clean up any previous error messages" *)
CleanUp(ms) ==
  IF /\ Len(ms) >= 2
     /\ IsErrorAgent(ms[Len(ms)])
     /\ ms[Len(ms) - 1].role = "user"
  THEN SubSeq(ms, 1, Len(ms) - 2)
  ELSE ms

(* updateMessagesWithErrorState *)
UpdateMessagesWithErrorState(ms) ==
  IF ms # <<>> /\ ms[Len(ms)].role = "agent"
  THEN [ms EXCEPT ![Len(ms)].streamingError = TRUE]
  ELSE ms

ChatInit ==
  /\ now = 0
  /\ exchanges = <<>>
  /\ front = IdleFront
  /\ messages = <<>>
  /\ isStreaming = FALSE
  /\ streamingErrorMessage = ""
  /\ toasts = <<>>

Tick ==
  /\ now < MaxNow
  /\ now' = now + 1
  /\ UNCHANGED <<cliVars, serverVars, turnVars, exchanges, front, messages, isStreaming,
                 streamingErrorMessage, toasts>>

(* handleSubmit, and handleStreamResponse up to the health check's await;
   the input is disabled while isStreaming *)
HandleSubmit(input) ==
  /\ front.pc = "idle"
  /\ ~isStreaming
  /\ Trim(input) # ""
  /\ Len(CleanUp(messages)) + 2 <= MaxMessages
  /\ isStreaming' = TRUE
  /\ streamingErrorMessage' = ""
  /\ toasts' = <<>>
  /\ front' = [pc |-> "health", ended |-> "none", message |-> input]
  /\ UNCHANGED <<cliVars, serverVars, turnVars, now, exchanges, messages>>

(* checkCLIBackendStatus settles; on success the user message and the
   placeholder are added and the request is sent *)
HealthDone(ok) ==
  /\ front.pc = "health"
  /\ IF ok
     THEN /\ messages' = CleanUp(messages) \o
                <<[role |-> "user", content |-> front.message, created_at |-> now],
                  [role |-> "agent", content |-> "", tool_calls |-> <<>>,
                   streamingError |-> FALSE, created_at |-> now + 1]>>
          /\ front' = [pc |-> "sending", ended |-> "none", message |-> front.message]
          /\ UNCHANGED <<isStreaming, toasts>>
     ELSE /\ toasts' = Append(toasts, "CLI backend is not available")
          /\ isStreaming' = FALSE
          /\ front' = [pc |-> "idle", ended |-> "health"]
          /\ UNCHANGED messages
  /\ UNCHANGED <<cliVars, serverVars, turnVars, now, exchanges, streamingErrorMessage>>

(* The server handles the frontend's POST /api/agentui/chat *)
PostAgentUiChat(ai) ==
  /\ front.pc = "sending"
  /\ LET response == AgentUiChat(ai, now)
     IN  /\ exchanges' = <<[message |-> front.message, ai |-> ai, response |-> response]>>
         /\ front' = [pc |-> "responding", ended |-> "none", message |-> front.message,
                      wire |-> response]
  /\ UNCHANGED <<cliVars, serverVars, turnVars, now, messages, isStreaming, streamingErrorMessage, toasts>>

(* catch and finally of handleStreamResponse *)
ChatFailed(how, text) ==
  /\ messages' = UpdateMessagesWithErrorState(messages)
  /\ streamingErrorMessage' = text
  /\ toasts' = Append(toasts, "Chat error")
  /\ isStreaming' = FALSE
  /\ front' = [pc |-> "idle", ended |-> how]

(* fetch rejects: the request never reached the server *)
FetchFails ==
  /\ front.pc = "sending"
  /\ ChatFailed("network", "Failed to fetch")
  /\ UNCHANGED <<cliVars, serverVars, turnVars, now, exchanges>>

(* sendCLIChatMessage resolves or throws on the server's response, and
   handleStreamResponse finishes *)
ResponseArrives ==
  /\ front.pc = "responding"
  /\ IF front.wire.status # 200
     THEN ChatFailed("response", "CLI backend error")
     ELSE /\ messages' = SubSeq(messages, 1, Len(messages) - 1) \o
                           ConvertCLIMessagesToAgentUI(front.wire.msgs)
          /\ isStreaming' = FALSE
          /\ front' = [pc |-> "idle", ended |-> "response"]
          /\ UNCHANGED <<streamingErrorMessage, toasts>>
  /\ UNCHANGED <<cliVars, serverVars, turnVars, now, exchanges>>

ChatNext ==
  \/ Tick
  \/ \E input \in Inputs : HandleSubmit(input)
  \/ \E ok \in BOOLEAN : HealthDone(ok)
  \/ \E ai \in AiOutcomes : PostAgentUiChat(ai)
  \/ FetchFails
  \/ ResponseArrives

----------------------------------------------------------------------------
(* Tool processing of one turn: the loop of handleChatMode (CLI) and the
   loop of the documented chat endpoint (recreate.md).  Both walk the tool
   calls of the AI reply with `for (...) { ... await ... }`. *)

MaxCalls == 2

MaxMsgs == 2

(* Names in availableTools (CLI) / allTools (endpoint), and one name absent *)
Catalogue == {"brave-search", "rugcheck"}

ToolNames == Catalogue \cup {"no-such-tool"}

(* Names the AI backend puts in function.name *)
EndpointNames == {"brave-search", "no-such-tool"}

(* toolCall.function.arguments is JSON text; JSON.parse throws on the second *)
ArgTexts == {"{}", "{bad"}

JsonParses(text) == text = "{}"

(* How the awaited call of one tool settles *)
CliOutcomes == {"success", "failed", "threw"}

EndpointOutcomes == {"success", "threw"}

IdleTurn ==
  [proc |-> "none", pc |-> "idle", m |-> 1, i |-> 1, inflight |-> {}, startTime |-> 0]

Min(S) == CHOOSE x \in S : \A y \in S : x <= y

Max(S) == CHOOSE x \in S : \A y \in S : x >= y

(* parseToolCalls output: the tool calls of the reply, in textual order *)
CliToolCalls ==
  UNION {[1..n -> [name : ToolNames, arguments : {"params"}]] : n \in 0..MaxCalls}

(* response.messages of the AI backend.  counts[m] is the number of
   tool_calls of message m, or -1 for a message without tool_calls; ids are
   unique within the response. *)
RECURSIVE CallsBefore(_, _)
CallsBefore(counts, m) ==
  IF m <= 1 THEN 0
  ELSE CallsBefore(counts, m - 1) + (IF counts[m - 1] < 0 THEN 0 ELSE counts[m - 1])

MessageAt(counts, flat, m) ==
  IF counts[m] < 0
  THEN [role |-> "assistant", content |-> "text"]
  ELSE [role |-> "assistant", content |-> "",
        tool_calls |-> [e \in 1..counts[m] |->
           [id |-> "call_" \o ToString(CallsBefore(counts, m) + e),
            type |-> "function",
            function |-> flat[CallsBefore(counts, m) + e]]]]

MessageCounts ==
  {c \in UNION {[1..n -> -1..MaxCalls] : n \in 0..MaxMsgs} :
     CallsBefore(c, Len(c) + 1) <= MaxCalls}

HustleResponses ==
  UNION {{[m \in 1..Len(c) |-> MessageAt(c, flat, m)] :
            flat \in [1..CallsBefore(c, Len(c) + 1) -> [name : EndpointNames, arguments : ArgTexts]]} :
         c \in MessageCounts}

HasToolCalls(msg) == "tool_calls" \in DOMAIN msg

CallsOf(msg) == IF HasToolCalls(msg) THEN msg.tool_calls ELSE <<>>

NameOf(proc, call) == IF proc = "cli" THEN call.name ELSE call.function.name

(* What an iteration does before its first await: the tool lookup, and in
   the endpoint JSON.parse of the arguments *)
SyncOutcome(proc, call) ==
  IF NameOf(proc, call) \notin Catalogue THEN "missing"
  ELSE IF proc = "endpoint" /\ ~JsonParses(call.function.arguments) THEN "badargs"
  ELSE "await"

(* The iterations whose call is awaited when the loop runs on from index
   `from`: the loop is sequential, so only the first one that reaches its await *)
AwaitedNext_All(proc, toolCalls, from) ==
  {j \in from..Len(toolCalls) : SyncOutcome(proc, toolCalls[j]) = "await"}

AwaitedNext(proc, toolCalls, from) ==
  LET r == {j \in from..Len(toolCalls) : SyncOutcome(proc, toolCalls[j]) = "await"}
  IN  IF r = {} THEN {} ELSE {Min(r)}

(* handleChatMode: the entry pushed to toolResults for one tool call *)
CliResult(call, outcome) ==
  CASE outcome = "success" ->
         [toolName |-> call.name, success |-> TRUE, result |-> "result"]
    [] outcome = "failed" ->
         [toolName |-> call.name, success |-> FALSE, error |-> "Unknown error"]
    [] outcome = "threw" ->
         [toolName |-> call.name, success |-> FALSE,
          error |-> "Request failed with status code 500"]
    [] outcome = "missing" ->
         [toolName |-> call.name, success |-> FALSE,
          error |-> "Tool \"" \o call.name \o "\" not found"]

(* Documented endpoint: the tool message of a handler that returned *)
ToolMessage_NameAsId(toolCall, time, t) ==
  [role |-> "tool", content |-> "result",
   tool_call_id |-> toolCall.function.name,
   tool_name |-> toolCall.function.name, tool_args |-> "args",
   tool_call_error |-> FALSE, metrics |-> [time |-> time], created_at |-> t]

ToolMessage(toolCall, time, t) ==
  [role |-> "tool", content |-> "result",
   tool_call_id |-> toolCall.id,
   tool_name |-> toolCall.function.name, tool_args |-> "args",
   tool_call_error |-> FALSE, metrics |-> [time |-> time], created_at |-> t]

(* Documented endpoint: the tool message pushed by the catch block *)
ErrorToolMessage(toolCall, t) ==
  [role |-> "tool", content |-> "execution_error",
   tool_call_id |-> toolCall.id,
   tool_name |-> toolCall.function.name,
   tool_call_error |-> TRUE, metrics |-> [time |-> 0], created_at |-> t]

(* What one iteration pushes once it is over: toolResults entries in the
   CLI, processedMessages entries in the endpoint.  The endpoint's
   `if (tool)` has no else branch. *)
Pushed(proc, call, outcome, start, t) ==
  IF proc = "cli" THEN <<CliResult(call, outcome)>>
  ELSE CASE outcome = "missing" -> <<>>
         [] outcome = "success" -> <<ToolMessage(call, t - start, t)>>
         [] OTHER -> <<ErrorToolMessage(call, t)>>

RECURSIVE SyncPushes(_, _, _, _)
SyncPushes(proc, toolCalls, js, t) ==
  IF js = {} THEN <<>>
  ELSE LET j == Min(js)
       IN  Pushed(proc, toolCalls[j], SyncOutcome(proc, toolCalls[j]), t, t)
             \o SyncPushes(proc, toolCalls, js \ {j}, t)

(* The loop runs on from index `from` until it suspends at an await or ends *)
Advance(proc, toolCalls, from, t) ==
  LET issued == AwaitedNext(proc, toolCalls, from)
      next == IF issued = {} THEN Len(toolCalls) + 1 ELSE Max(issued) + 1
  IN  [pushes |-> SyncPushes(proc, toolCalls, (from..(next - 1)) \ issued, t),
       issued |-> issued, i |-> next]

(* Documented endpoint: the entries pushed for a message of the response *)
AssistantWithCalls(msg, t) ==
  [role |-> "assistant", content |-> msg.content, created_at |-> t,
   tool_calls |-> [e \in 1..Len(msg.tool_calls) |->
      [id |-> msg.tool_calls[e].id, type |-> "function",
       function |-> [name |-> msg.tool_calls[e].function.name,
                     arguments |-> msg.tool_calls[e].function.arguments]]]]

RegularMessage(msg, t) == [role |-> msg.role, content |-> msg.content, created_at |-> t]

(* `for (const msg of response.messages)` from message m on, until a tool
   call is awaited or the messages are exhausted *)
RECURSIVE Walk(_, _, _)
Walk(msgs, m, t) ==
  IF m > Len(msgs) THEN [pushes |-> <<>>, m |-> m, i |-> 1, issued |-> {}]
  ELSE IF HasToolCalls(msgs[m])
  THEN LET a == Advance("endpoint", msgs[m].tool_calls, 1, t)
           head == <<AssistantWithCalls(msgs[m], t)>> \o a.pushes
       IN  IF a.issued # {}
           THEN [pushes |-> head, m |-> m, i |-> a.i, issued |-> a.issued]
           ELSE LET rest == Walk(msgs, m + 1, t)
                IN  [rest EXCEPT !.pushes = head \o @]
  ELSE LET rest == Walk(msgs, m + 1, t)
       IN  [rest EXCEPT !.pushes = <<RegularMessage(msgs[m], t)>> \o @]

(* Position of tool call j of message m among the requests of the turn *)
RECURSIVE RequestsBefore(_, _)
RequestsBefore(msgs, m) ==
  IF m <= 1 THEN 0 ELSE RequestsBefore(msgs, m - 1) + Len(CallsOf(msgs[m - 1]))

RECURSIVE Flatten(_)
Flatten(msgs) ==
  IF msgs = <<>> THEN <<>> ELSE CallsOf(Head(msgs)) \o Flatten(Tail(msgs))

(* examples/add-weather-tool-example.js: handleAgentUiRequest *)
UserMessages == {"search for cats", "hello"}

ExampleHandleAgentUiRequest(userMessage, t) ==
  IF userMessage = "search for cats"
  THEN <<[role |-> "assistant", content |-> "Okay, I will search for cats.",
          tool_calls |-> <<[id |-> "tool-" \o ToString(t), type |-> "function",
                            function |-> [name |-> "brave-search",
                                          arguments |-> "{}"]]>>,
          created_at |-> t],
         [role |-> "tool", tool_call_id |-> "tool-" \o ToString(t),
          tool_name |-> "brave-search", content |-> "result",
          created_at |-> t + 1000],
         [role |-> "assistant", content |-> "I found some images of cats for you!",
          created_at |-> t + 2000]>>
  ELSE <<[role |-> "assistant", content |-> "Your CLI backend received",
          created_at |-> t]>>

TurnInit ==
  /\ turn = IdleTurn
  /\ reply = <<>>
  /\ toolResults = <<>>
  /\ hasErrors = FALSE
  /\ processedMessages = <<>>
  /\ emitted = <<>>
  /\ settledAs = <<>>

(* let availableTools = [] *)
CliInit ==
  /\ availableTools = {}
  /\ parsed = <<>>
  /\ cliResponse = <<>>
  /\ agentUI = <<>>
  /\ sentHistory = <<>>
  /\ currentMode = "chat"
  /\ lastMessageId = "null"
  /\ displayed = "null"
  /\ printed = <<>>

(* handleChatMode(input): up to `await client.chat(...)` *)
HandleChatMode ==
  /\ turn.pc = "idle"
  /\ turn' = [IdleTurn EXCEPT !.proc = "cli", !.pc = "chat"]
  /\ UNCHANGED <<cliVars, serverVars, chatVars, reply, toolResults, hasErrors,
                 processedMessages, emitted, settledAs>>

(* followUpPrompt: what the follow-up request tells the AI backend *)
FollowUpPrompt(results, errors) ==
  IF errors
  THEN [executed |-> Len(results),
        successful |-> SelectSeq(results, LAMBDA r : r.success),
        failed |-> SelectSeq(results, LAMBDA r : ~r.success)]
  ELSE [executed |-> Len(results), successful |-> results, failed |-> <<>>]

CliAfterLoop_Always(results) == "summary"

(* `if (toolResults.length > 0)`: the follow-up chat is awaited *)
CliAfterLoop(results) == IF Len(results) > 0 THEN "summary" ELSE "done"

(* client.chat settles; the reply is parsed and the loop runs to its first await *)
CliChatSettles(ok) ==
  /\ turn.proc = "cli" /\ turn.pc = "chat"
  /\ IF ~ok
     THEN /\ turn' = [turn EXCEPT !.pc = "done"]
          /\ UNCHANGED <<reply, toolResults, hasErrors, settledAs>>
     ELSE \E toolCalls \in CliToolCalls :
          LET a == Advance("cli", toolCalls, 1, now)
          IN  /\ reply' = toolCalls
              /\ toolResults' = a.pushes
              /\ hasErrors' = (a.pushes # <<>>)
              /\ settledAs' = [k \in 1..Len(toolCalls) |-> "pending"]
              /\ turn' = [turn EXCEPT
                    !.pc = IF a.issued # {} THEN "tools" ELSE CliAfterLoop(a.pushes),
                    !.i = a.i, !.inflight = a.issued, !.startTime = now]
  /\ UNCHANGED <<cliVars, serverVars, chatVars, processedMessages, emitted>>

(* `await axios.post(.../api/tools/call)` of iteration j settles; the loop
   runs on to its next await or to its end *)
CliToolSettles(j, outcome) ==
  /\ turn.proc = "cli" /\ turn.pc = "tools" /\ j \in turn.inflight
  /\ LET mine == Pushed("cli", reply[j], outcome, turn.startTime, now)
         a == Advance("cli", reply, turn.i, now)
         left == (turn.inflight \ {j}) \cup a.issued
         results == toolResults \o mine \o a.pushes
     IN  /\ toolResults' = results
         /\ hasErrors' = (hasErrors \/ outcome # "success" \/ a.pushes # <<>>)
         /\ settledAs' = [settledAs EXCEPT ![j] = outcome]
         /\ turn' = [turn EXCEPT
               !.pc = IF left # {} THEN "tools" ELSE CliAfterLoop(results),
               !.i = a.i, !.inflight = left,
               !.startTime = IF a.issued # {} THEN now ELSE @]
  /\ UNCHANGED <<cliVars, serverVars, chatVars, reply, processedMessages, emitted>>

(* The follow-up `await client.chat(...)` settles; both branches only print *)
SummaryDone(ok) ==
  /\ turn.proc = "cli" /\ turn.pc = "summary"
  /\ turn' = [turn EXCEPT !.pc = "done"]
  /\ UNCHANGED <<cliVars, serverVars, chatVars, reply, toolResults, hasErrors,
                 processedMessages, emitted, settledAs>>

(* Documented endpoint: up to `await hustleClient.chat(...)` *)
DocumentedChat ==
  /\ turn.pc = "idle"
  /\ turn' = [IdleTurn EXCEPT !.proc = "endpoint", !.pc = "chat"]
  /\ UNCHANGED <<cliVars, serverVars, chatVars, reply, toolResults, hasErrors,
                 processedMessages, emitted, settledAs>>

(* hustleClient.chat settles: outer catch (500), or the messages are walked
   to the first awaited handler; res.json when none is awaited *)
EndpointChatSettles(ok) ==
  /\ turn.proc = "endpoint" /\ turn.pc = "chat"
  /\ IF ~ok
     THEN /\ turn' = [turn EXCEPT !.pc = "failed"]
          /\ UNCHANGED <<reply, processedMessages, emitted, settledAs>>
     ELSE \E response \in HustleResponses :
          LET w == Walk(response, 1, now)
          IN  /\ reply' = response
              /\ processedMessages' = w.pushes
              /\ settledAs' = [k \in 1..Len(Flatten(response)) |-> "pending"]
              /\ emitted' = IF w.issued = {} THEN w.pushes ELSE emitted
              /\ turn' = [turn EXCEPT
                    !.pc = IF w.issued = {} THEN "done" ELSE "tools",
                    !.m = w.m, !.i = w.i, !.inflight = w.issued, !.startTime = now]
  /\ UNCHANGED <<cliVars, serverVars, chatVars, toolResults, hasErrors>>

(* `await tool.handler(args)` of tool call j of message turn.m settles *)
EndpointToolSettles(j, outcome) ==
  /\ turn.proc = "endpoint" /\ turn.pc = "tools" /\ j \in turn.inflight
  /\ LET toolCalls == reply[turn.m].tool_calls
         mine == Pushed("endpoint", toolCalls[j], outcome, turn.startTime, now)
         a == Advance("endpoint", toolCalls, turn.i, now)
         left == (turn.inflight \ {j}) \cup a.issued
         w == IF left = {} THEN Walk(reply, turn.m + 1, now)
              ELSE [pushes |-> <<>>, m |-> turn.m, i |-> a.i, issued |-> left]
         out == processedMessages \o mine \o a.pushes \o w.pushes
     IN  /\ processedMessages' = out
         /\ settledAs' = [settledAs EXCEPT ![RequestsBefore(reply, turn.m) + j] = outcome]
         /\ emitted' = IF w.issued = {} THEN out ELSE emitted
         /\ turn' = [turn EXCEPT
               !.pc = IF w.issued = {} THEN "done" ELSE "tools",
               !.m = w.m, !.i = w.i, !.inflight = w.issued,
               !.startTime = IF a.issued # {} \/ left = {} THEN now ELSE @]
  /\ UNCHANGED <<cliVars, serverVars, chatVars, reply, toolResults, hasErrors>>

(* The example handler answers in one step *)
ExampleChat(userMessage) ==
  /\ turn.pc = "idle"
  /\ turn' = [IdleTurn EXCEPT !.proc = "example", !.pc = "done"]
  /\ emitted' = ExampleHandleAgentUiRequest(userMessage, now)
  /\ UNCHANGED <<cliVars, serverVars, chatVars, reply, toolResults, hasErrors,
                 processedMessages, settledAs>>

(* The next input or request starts from fresh locals *)
NextTurn ==
  /\ turn.pc \in {"done", "failed"}
  /\ turn' = IdleTurn
  /\ reply' = <<>>
  /\ toolResults' = <<>>
  /\ hasErrors' = FALSE
  /\ processedMessages' = <<>>
  /\ emitted' = <<>>
  /\ settledAs' = <<>>
  /\ UNCHANGED <<cliVars, serverVars, chatVars>>

TurnNext ==
  \/ Tick
  \/ HandleChatMode
  \/ \E ok \in BOOLEAN : CliChatSettles(ok)
  \/ \E j \in 1..(MaxCalls + 1), outcome \in CliOutcomes : CliToolSettles(j, outcome)
  \/ \E ok \in BOOLEAN : SummaryDone(ok)
  \/ DocumentedChat
  \/ \E ok \in BOOLEAN : EndpointChatSettles(ok)
  \/ \E j \in 1..(MaxCalls + 1), outcome \in EndpointOutcomes : EndpointToolSettles(j, outcome)
  \/ \E userMessage \in UserMessages : ExampleChat(userMessage)
  \/ NextTurn

----------------------------------------------------------------------------
(* Specifications *)

Init == ServerInit /\ ChatInit /\ TurnInit /\ CliInit

Next ==
  \/ Startup
  \/ \E s \in Slots, name \in RequestNames, params \in ParamKinds : Receive(s, name, params)
  \/ \E s \in Slots : SessionOpened(s)
  \/ \E s \in Slots, outcome \in CallOutcomes \cup {"ok"} : Answered(s, outcome)
  \/ \E s \in Slots, ok \in BOOLEAN : InitDone(s, ok)
  \/ \E s \in Slots, outcome \in CallOutcomes : CallDone(s, outcome)
  \/ \E s \in Slots, ok \in BOOLEAN : LocalDone(s, ok)
  \/ \E s \in Slots, outcome \in HustleOutcomes : HustleDone(s, outcome)

Spec == Init /\ [][Next]_vars

(* The server under the assumption that every awaited step other than the
   adapters' answers is eventually taken: sessions open or fail to open,
   sessions close, AgentHustle answers.  Nothing is assumed about the
   request on a hosted session or the local search API answering; the code
   arms no timer for either. *)
Responsive ==
  /\ WF_vars(Startup)
  /\ WF_vars(\E s \in Slots : SessionOpened(s))
  /\ WF_vars(\E s \in Slots, ok \in BOOLEAN : InitDone(s, ok))
  /\ WF_vars(\E s \in Slots, outcome \in CallOutcomes : CallDone(s, outcome))
  /\ WF_vars(\E s \in Slots, outcome \in HustleOutcomes : HustleDone(s, outcome))

SpecLive == Init /\ [][Next]_vars /\ Responsive

ChatSpecInit == ServerQuiet /\ ChatInit /\ TurnInit /\ CliInit

SpecChat == ChatSpecInit /\ [][ChatNext]_vars

SpecTurn == ChatSpecInit /\ [][TurnNext]_vars

(* Every request the CLI awaits settles: client.chat and axios.post resolve
   or reject *)
CliSettles ==
  /\ WF_vars(\E ok \in BOOLEAN : CliChatSettles(ok))
  /\ WF_vars(\E j \in 1..(MaxCalls + 1), outcome \in CliOutcomes : CliToolSettles(j, outcome))
  /\ WF_vars(\E ok \in BOOLEAN : SummaryDone(ok))

SpecTurnLive == ChatSpecInit /\ [][TurnNext]_vars /\ CliSettles

(* Concurrent requests on the web-search backend: two tool invocations and
   a list request interleave at their awaits *)
ConcNames == {"brave_web_search", "brave_local_search", "brave-search"}

ConcInit == Init /\ ~env.ORDISCAN /\ ~env.ALPHA

ConcNext ==
  \/ Startup
  \/ \E s \in AllSlots, name \in ConcNames : Receive(s, name, "complete")
  \/ \E r \in Runners : SessionOpened(r)
  \/ \E r \in Runners, outcome \in CallOutcomes \cup {"ok"} : Answered(r, outcome)
  \/ \E s \in AllSlots, ok \in BOOLEAN : InitDone(s, ok)
  \/ \E s \in AllSlots, outcome \in CallOutcomes : CallDone(s, outcome)
  \/ \E s \in AllSlots, ok \in BOOLEAN : LocalDone(s, ok)
  \/ ListTools
  \/ \E ok \in BOOLEAN : ListDone(ok)
  \/ Recover

SpecConc == ConcInit /\ [][ConcNext]_vars

(* List requests interleaved with one tool invocation at a time, on all
   three hosted backends *)
ListNames == {"brave_local_search", "ordiscan_main", "get-stock-data"}

ListNext ==
  \/ Startup
  \/ \E name \in ListNames : Receive("s1", name, "complete")
  \/ \E r \in {"s1", "list"} : SessionOpened(r)
  \/ \E r \in {"s1", "list"}, outcome \in {"throw", "json", "ok"} : Answered(r, outcome)
  \/ \E ok \in BOOLEAN : InitDone("s1", ok)
  \/ \E outcome \in {"throw", "json"} : CallDone("s1", outcome)
  \/ ListTools
  \/ \E ok \in BOOLEAN : ListDone(ok)

SpecList == Init /\ [][ListNext]_vars

----------------------------------------------------------------------------
(* Chat requests from arbitrary clients: req.body is { message, sessionId,
   history }; the server keeps a log of what it was sent, what it passed to
   the AI backend and what it answered *)

MaxExchanges == 2

ChatMessages == {"hello", "is this token safe"}

SessionIds == {"undefined", "session-1"}

Histories == {<<>>, <<[role |-> "user", content |-> "earlier question"]>>}

ChatBodies == [message : ChatMessages, sessionId : SessionIds, history : Histories]

SessionAiOutcomes ==
  {[threw |-> FALSE, content |-> "Here is the answer", message |-> "", toolCalls |-> <<>>],
   [threw |-> FALSE, content |-> "", message |-> "", toolCalls |-> <<>>],
   [threw |-> TRUE, error |-> "Request failed"]}

ChatCall_WithHistory(userMessage, sessionId, history) ==
  [messages |-> history \o <<[role |-> "user", content |-> userMessage]>>,
   options |-> [vaultId |-> "VAULT_ID"]]

(* handleAgentUiRequest: the arguments of client.chat *)
ChatCall(userMessage, sessionId, history) ==
  [messages |-> <<[role |-> "user", content |-> userMessage]>>,
   options |-> [vaultId |-> "VAULT_ID"]]

(* GET /v1/playground/agents/:agent_id/sessions *)
SessionsList == <<>>

(* POST /api/agentui/chat with an arbitrary body *)
ChatRequest(body, ai) ==
  /\ Len(exchanges) < MaxExchanges
  /\ exchanges' = Append(exchanges,
       [endpoint |-> "chat", body |-> body,
        call |-> ChatCall(body.message, body.sessionId, body.history),
        ai |-> ai, at |-> now, response |-> AgentUiChat(ai, now)])
  /\ UNCHANGED <<cliVars, serverVars, turnVars, now, front, messages, isStreaming,
                 streamingErrorMessage, toasts>>

(* GET /v1/playground/agents/:agent_id/sessions *)
SessionsRequest ==
  /\ Len(exchanges) < MaxExchanges + 1
  /\ exchanges # <<>>
  /\ exchanges[Len(exchanges)].endpoint = "chat"
  /\ exchanges' = Append(exchanges, [endpoint |-> "sessions", response |-> SessionsList])
  /\ UNCHANGED <<cliVars, serverVars, turnVars, now, front, messages, isStreaming,
                 streamingErrorMessage, toasts>>

SessionNext ==
  \/ Tick
  \/ \E body \in ChatBodies, ai \in SessionAiOutcomes : ChatRequest(body, ai)
  \/ SessionsRequest

SpecSession == ChatSpecInit /\ [][SessionNext]_vars

----------------------------------------------------------------------------
(* POST /v1/playground/agents/:agent_id/runs *)

(* req.body.stream: the string 'true', the boolean true, false, or absent *)
StreamFlags == {"'true'", "true", "false", "undefined"}

(* The response of the run endpoint, given what client.chat delivered at
   time t: the event written in streaming mode, the JSON reply otherwise *)
PlaygroundRun(stream, ai, t) ==
  LET result == HandleAgentUiRequest(ai, t)
  IN  IF stream = "'true'" \/ stream = "true"
      THEN IF result.kind = "throw"
           THEN [status |-> 200, streamed |-> TRUE,
                 body |-> [event |-> "run_error", content |-> "Error: " \o result.error,
                           created_at |-> t \div 1000]]
           ELSE [status |-> 200, streamed |-> TRUE,
                 body |-> [event |-> "run_completed", content |-> result.msgs[1].content,
                           created_at |-> t \div 1000, tools |-> <<>>]]
      ELSE IF result.kind = "throw"
           THEN [status |-> 500, streamed |-> FALSE,
                 body |-> [error |-> result.error, created_at |-> t \div 1000]]
           ELSE [status |-> 200, streamed |-> FALSE,
                 body |-> [content |-> result.msgs[1].content, tool_calls |-> <<>>,
                           created_at |-> t \div 1000]]

RunRequest(message, stream, ai) ==
  /\ Len(exchanges) < MaxExchanges
  /\ exchanges' = Append(exchanges,
       [endpoint |-> "runs", body |-> [message |-> message, stream |-> stream],
        ai |-> ai, at |-> now, response |-> PlaygroundRun(stream, ai, now)])
  /\ UNCHANGED <<cliVars, serverVars, turnVars, now, front, messages, isStreaming,
                 streamingErrorMessage, toasts>>

RunsNext ==
  \/ Tick
  \/ \E message \in ChatMessages, stream \in StreamFlags, ai \in SessionAiOutcomes :
       RunRequest(message, stream, ai)

SpecRuns == ChatSpecInit /\ [][RunsNext]_vars

----------------------------------------------------------------------------
(* The CLI's parser of tool calls written in an AI reply:
   parseToolCalls(content) on <tool>name({...})</tool> *)

(* The names an AI reply spells a search or stock tool with *)
WrittenNames == SearchNames \cup StockNames

(* The runs of word characters of a written name: a hyphen is not matched
   by \w, an underscore is *)
WordRuns(written) ==
  CASE written = "brave-search" -> <<"brave", "search">>
    [] written = "get-stock-data" -> <<"get", "stock", "data">>
    [] written = "get-stock-alerts" -> <<"get", "stock", "alerts">>
    [] written = "get-daily-stock-data" -> <<"get", "daily", "stock", "data">>
    [] OTHER -> <<written>>

(* The first group of functionCall.match: the run of word characters that
   ends at the opening parenthesis *)
ToolNameMatched(written) == WordRuns(written)[Len(WordRuns(written))]

(* toolName.includes(part), for the names the parser can match *)
NameIncludes(toolName, part) ==
  CASE part = "stock" -> toolName \in StockNames
    [] part = "get-stock" -> toolName \in {"get-stock-data", "get-stock-alerts"}
    [] part = "get_stock" -> toolName \in {"get_stock_data", "get_stock_alerts"}
    [] part = "ordiscan" -> toolName \in OrdiscanNames
    [] OTHER -> FALSE

(* toolName.replace(/-/g, '_') *)
Underscored(toolName) ==
  CASE toolName \in {"get-stock-data", "get_stock_data"} -> "get_stock_data"
    [] toolName \in {"get-stock-alerts", "get_stock_alerts"} -> "get_stock_alerts"
    [] toolName \in {"get-daily-stock-data", "get_daily_stock_data"} -> "get_daily_stock_data"
    [] toolName = "brave-search" -> "brave_search"
    [] OTHER -> toolName

(* The chain that maps toolName to mappedToolName *)
MappedToolName(toolName, tools) ==
  IF toolName = "brave_web_search" \/ toolName = "brave-search"
  THEN IF "brave_web_search" \in tools THEN "brave_web_search"
       ELSE IF "brave-search" \in tools THEN "brave-search"
       ELSE toolName
  ELSE IF toolName = "brave_local_search"
  THEN IF "brave_local_search" \in tools THEN "brave_local_search" ELSE toolName
  ELSE IF NameIncludes(toolName, "ordiscan")
  THEN toolName
  ELSE IF NameIncludes(toolName, "brc20") \/ NameIncludes(toolName, "inscription")
            \/ NameIncludes(toolName, "rune")
  THEN IF toolName \in tools THEN toolName ELSE toolName
  ELSE IF NameIncludes(toolName, "stock") \/ NameIncludes(toolName, "get-stock")
            \/ NameIncludes(toolName, "get_stock")
  THEN IF Hyphenated(toolName) \in tools THEN Hyphenated(toolName)
       ELSE IF Underscored(toolName) \in tools THEN Underscored(toolName)
       ELSE Hyphenated(toolName)
  ELSE toolName

(* The name parseToolCalls returns for a call written with `written` *)
ParsedName(written, tools) == MappedToolName(ToolNameMatched(written), tools)

(* The tool lists the backend can answer /api/tools/list with, by name *)
ListedNames == SUBSET {"brave-search", "brave_web_search", "get-stock-data", "get_stock_data"}

(* availableTools = toolsResponse.data.tools *)
LoadTools(tools) ==
  /\ availableTools = {}
  /\ parsed = <<>>
  /\ availableTools' = tools
  /\ UNCHANGED <<serverVars, chatVars, turnVars, parsed, cliResponse, agentUI, sentHistory, commandVars>>

(* parseToolCalls(content), for a reply holding one tool call *)
ParseToolCalls(written) ==
  /\ parsed' = <<[written |-> written, name |-> ParsedName(written, availableTools)]>>
  /\ UNCHANGED <<serverVars, chatVars, turnVars, availableTools, cliResponse, agentUI, sentHistory, commandVars>>

ParseNext ==
  \/ \E tools \in ListedNames : LoadTools(tools)
  \/ \E written \in WrittenNames : ParseToolCalls(written)

SpecParse == ChatSpecInit /\ [][ParseNext]_vars

----------------------------------------------------------------------------
(* The frontend's conversions between backend messages and Agent UI
   messages: a response is converted when it arrives, and the messages kept
   are converted back into the history of the next request *)

MaxToolCalls == 2

ContentTexts == {"", "text"}

ToolCallArgs == {"{}", "{\"query\":\"cats\"}", "{ \"query\": \"cats\" }"}

(* tool_calls of a backend message: ids are unique within the message *)
BackendToolCalls ==
  UNION {[1..n -> [name : Catalogue, arguments : ToolCallArgs]] : n \in 1..MaxToolCalls}

WithIds(fs) ==
  [e \in 1..Len(fs) |-> [id |-> "call_" \o ToString(e), type |-> "function", function |-> fs[e]]]

(* CLIBackendMessage: plain messages, assistant messages with tool_calls,
   and tool messages *)
BackendMessages ==
  [role : {"user", "assistant"}, content : ContentTexts, created_at : 0..MaxNow]
    \cup {[role |-> "assistant", content |-> c, created_at |-> t, tool_calls |-> WithIds(fs)] :
            c \in ContentTexts, t \in 0..MaxNow, fs \in BackendToolCalls}
    \cup [role : {"tool"}, content : ContentTexts, created_at : 0..MaxNow,
          tool_call_id : {"call_1", "call_2"}, tool_name : Catalogue]

(* const agentUIMessages = convertCLIMessagesToAgentUI(response) *)
ResponseConverted(msg) ==
  /\ cliResponse' = <<msg>>
  /\ agentUI' = ConvertCLIMessagesToAgentUI(<<msg>>)
  /\ sentHistory' = <<>>
  /\ UNCHANGED <<serverVars, chatVars, turnVars, availableTools, parsed, commandVars>>

(* const history = convertAgentUIHistoryToCLI(messages.slice(-10)) *)
HistoryConverted ==
  /\ agentUI # <<>>
  /\ sentHistory = <<>>
  /\ sentHistory' = ConvertAgentUIHistoryToCLI(agentUI, now)
  /\ UNCHANGED <<serverVars, chatVars, turnVars, availableTools, parsed, cliResponse, agentUI, commandVars>>

ConvertNext ==
  \/ \E msg \in BackendMessages : ResponseConverted(msg)
  \/ HistoryConverted

SpecConvert == ChatSpecInit /\ [][ConvertNext]_vars

----------------------------------------------------------------------------
(* The CLI's input loop: promptForInput and handleCommand *)

MODES == {"chat", "tools", "stream"}

(* Lines typed at the prompt that start with a slash *)
CommandInputs ==
  {"/mode chat", "/mode tools", "/mode stream", "/mode", "/mode fast", "/mode Tools",
   "/mode  tools", "/MODE stream", "/mode tools now",
   "/feedback", "/feedback positive", "/feedback negative", "/feedback good",
   "/feedback positive great answer", "/tools"}

(* input.slice(1).split(' '): two spaces in a row give an empty part *)
Parts(input) ==
  CASE input = "/mode chat" -> <<"mode", "chat">>
    [] input = "/mode tools" -> <<"mode", "tools">>
    [] input = "/mode stream" -> <<"mode", "stream">>
    [] input = "/mode" -> <<"mode">>
    [] input = "/mode fast" -> <<"mode", "fast">>
    [] input = "/mode Tools" -> <<"mode", "Tools">>
    [] input = "/mode  tools" -> <<"mode", "", "tools">>
    [] input = "/MODE stream" -> <<"MODE", "stream">>
    [] input = "/mode tools now" -> <<"mode", "tools", "now">>
    [] input = "/feedback" -> <<"feedback">>
    [] input = "/feedback positive" -> <<"feedback", "positive">>
    [] input = "/feedback negative" -> <<"feedback", "negative">>
    [] input = "/feedback good" -> <<"feedback", "good">>
    [] input = "/feedback positive great answer" -> <<"feedback", "positive", "great", "answer">>
    [] input = "/tools" -> <<"tools">>

ToLowerCase(word) == IF word = "MODE" THEN "mode" ELSE word

(* parts[0].toLowerCase() *)
CommandOf(input) == ToLowerCase(Parts(input)[1])

(* args[0]; undefined and the empty string are both falsy *)
FirstArg(input) == IF Len(Parts(input)) >= 2 THEN Parts(input)[2] ELSE ""

(* case 'mode' *)
ModeAfter_Any(mode, arg) == IF arg # "" THEN arg ELSE mode

ModeAfter(mode, arg) == IF arg # "" /\ arg \in MODES THEN arg ELSE mode

(* The server's answer to the posted call { name: 'feedback', params } *)
FeedbackCall(messageId, feedback) ==
  IF "feedback" \in HandledNames
  THEN [status |-> 200, success |-> TRUE]
  ELSE [status |-> 500, success |-> FALSE]

(* case 'feedback': what is printed and what is posted *)
FeedbackOutcome(messageId, arg) ==
  IF messageId = "null"
  THEN [out |-> "No previous message to provide feedback for", posted |-> <<>>]
  ELSE IF arg = "" \/ arg \notin {"positive", "negative"}
  THEN [out |-> "Please specify feedback as \"positive\" or \"negative\"", posted |-> <<>>]
  ELSE LET body == [name |-> "feedback", messageId |-> messageId, feedback |-> arg]
       IN  IF FeedbackCall(messageId, arg).status = 200
           THEN [out |-> "Thank you for your feedback!", posted |-> <<body>>]
           ELSE [out |-> "Error submitting feedback", posted |-> <<body>>]

MessageIds == {"msg-1", "msg-2"}

(* rl.question callback on a line that starts with a slash: handleCommand *)
HandleCommand(input) ==
  /\ LET command == CommandOf(input)
         arg == FirstArg(input)
     IN  /\ currentMode' = IF command = "mode" THEN ModeAfter(currentMode, arg) ELSE currentMode
         /\ printed' =
              IF command = "mode"
              THEN <<[input |-> input, posted |-> <<>>,
                      out |-> IF ModeAfter(currentMode, arg) = arg /\ arg \in MODES
                              THEN "Switched" ELSE "Invalid mode"]>>
              ELSE IF command = "feedback"
              THEN <<[input |-> input] @@ FeedbackOutcome(lastMessageId, arg)>>
              ELSE <<[input |-> input, posted |-> <<>>, out |-> "Available Tools"]>>
  /\ UNCHANGED <<serverVars, chatVars, turnVars, availableTools, parsed, cliResponse,
                 agentUI, sentHistory, lastMessageId, displayed>>

(* handleChatMode: `console.log(response.content)` for a reply with this
   messageId; lastMessageId is not assigned *)
ChatResponseShown(messageId) ==
  /\ currentMode = "chat"
  /\ displayed' = messageId
  /\ printed' = <<[input |-> "hello", posted |-> <<>>, out |-> "Response"]>>
  /\ UNCHANGED <<serverVars, chatVars, turnVars, availableTools, parsed, cliResponse,
                 agentUI, sentHistory, currentMode, lastMessageId>>

CommandNext ==
  \/ \E input \in CommandInputs : HandleCommand(input)
  \/ \E messageId \in MessageIds : ChatResponseShown(messageId)

SpecCommand == ChatSpecInit /\ [][CommandNext]_vars


----------------------------------------------------------------------------
(* Helpers for stating properties of /api/tools/call *)

OpsOf(c, kinds) == {i \in 1..Len(c.ops) : c.ops[i].op \in kinds}

Responded(c) == c.pc = "done" /\ Len(c.response) = 1

Body(c) == c.response[1].body

(* C1: a web-search invocation with a local Brave key, during which every
   hosted Smithery operation threw and the local search succeeded, responds
   success=true with a locally sourced result, and smitheryConnected is false
   when it completes. *)
C1_FallbackCorrect ==
  \A s \in Slots :
    LET c == calls[s]
    IN  (/\ c.pc = "done"
         /\ c.name \in SearchNames
         /\ env.BRAVE
         /\ \A i \in OpsOf(c, {"initialize", "callTool"}) : ~c.ops[i].ok
         /\ \E i \in OpsOf(c, {"braveSearch"}) : c.ops[i].ok)
        => (/\ Responded(c)
            /\ Body(c).success
            /\ Body(c).result.source \in {"local", "local-fallback"}
            /\ ~smitheryConnected)

(* C9: every request to /api/tools/call gets exactly one response; it is
   {success: true, result, tool} with no error, or {success: false, error, tool}
   with a non-empty error and no result; tool is the requested name. *)
C9_ResponseShape ==
  \A s \in Slots :
    LET c == calls[s]
    IN  /\ (c.pc # "done") => (c.response = <<>>)
        /\ (c.pc = "done") =>
             /\ Len(c.response) = 1
             /\ Body(c).tool = c.name
             /\ Body(c).success \in BOOLEAN
             /\ Body(c).success =>
                  (DOMAIN Body(c) = {"success", "result", "tool"})
             /\ ~Body(c).success =>
                  (DOMAIN Body(c) = {"success", "error", "tool"} /\ Body(c).error # "")

(* A request failed with an error that carried no message of its own *)
C9_Witness ==
  \E s \in Slots :
    /\ Responded(calls[s])
    /\ ~Body(calls[s]).success
    /\ Body(calls[s]).error = "Failed to execute tool"
    /\ \E i \in OpsOf(calls[s], {"hustle"}) : ~calls[s].ops[i].ok

(* C10: for every handled tool, when the backend or handler call that decides
   the invocation throws, the response is a failure (success=false with the
   error text), never success=true. *)
C10_ThrowIsFailure ==
  \A s \in Slots :
    LET c == calls[s]
    IN  (/\ c.pc = "done"
         /\ c.name \in HandledNames
         /\ c.ops # <<>>
         /\ ~c.ops[Len(c.ops)].ok)
        => (Responded(c) /\ ~Body(c).success /\ Body(c).error # "")

----------------------------------------------------------------------------
(* Properties of the chat endpoint and of the frontend that consumes it *)

Exchanges == {exchanges[i] : i \in 1..Len(exchanges)}

(* C5: whenever the AI reply declares at least one tool call, the chat
   endpoint responds with an array of messages: the assistant message listing
   the calls, then the tool messages; never a single message. *)
C5_ArrayWhenToolCalls ==
  \A x \in Exchanges :
    (~x.ai.threw /\ x.ai.toolCalls # <<>>)
      => (/\ x.response.isArray
          /\ Len(x.response.msgs) = 1 + Len(x.ai.toolCalls)
          /\ x.response.msgs[1].role = "assistant"
          /\ \A k \in 2..Len(x.response.msgs) : x.response.msgs[k].role = "tool")

(* C6 as stated: a reply without tool calls yields exactly one assistant
   message whose content is the reply's text unchanged, the empty text
   included. *)
C6_ContentUnchanged ==
  \A x \in Exchanges :
    (~x.ai.threw /\ x.ai.toolCalls = <<>>)
      => (/\ ~x.response.isArray
          /\ Len(x.response.msgs) = 1
          /\ x.response.msgs[1].role = "assistant"
          /\ x.response.msgs[1].content = x.ai.content)

(* C6 (amended): a reply without tool calls yields exactly one assistant
   message; its content is the reply's text unchanged when that text is not
   empty, and otherwise a non-empty substitute: the reply's message field or
   the fixed placeholder sentence. *)
C6_ContentUnchangedIfNonEmpty ==
  \A x \in Exchanges :
    (~x.ai.threw /\ x.ai.toolCalls = <<>>)
      => (/\ ~x.response.isArray
          /\ Len(x.response.msgs) = 1
          /\ x.response.status = 200
          /\ x.response.msgs[1].role = "assistant"
          /\ (x.ai.content # "") => (x.response.msgs[1].content = x.ai.content)
          /\ (x.ai.content = "") =>
               (/\ x.response.msgs[1].content \in {x.ai.message, DefaultContent}
                /\ x.response.msgs[1].content # ""))

(* A reply with text and no tool calls was answered *)
C6_Witness ==
  \E x \in Exchanges :
    /\ ~x.ai.threw
    /\ x.ai.toolCalls = <<>>
    /\ x.ai.content # ""
    /\ x.ai.message # ""
    /\ x.response.msgs[1].content = x.ai.content

(* C7: whenever the AI backend call fails, the response body is one
   assistant-role message with non-empty content, a created_at timestamp and
   error = true; and no non-200 response of the chat endpoint lacks error: true. *)
C7_ErrorShape ==
  \A x \in Exchanges :
    /\ x.ai.threw =>
         (/\ ~x.response.isArray
          /\ Len(x.response.msgs) = 1
          /\ DOMAIN x.response.msgs[1] = {"role", "content", "created_at", "error"}
          /\ x.response.msgs[1].role = "assistant"
          /\ x.response.msgs[1].content # ""
          /\ x.response.msgs[1].created_at \in 0..now
          /\ x.response.msgs[1].error = TRUE)
    /\ (x.response.status # 200) => CarriesError(x.response)

(* The AI backend call failed and the endpoint answered with status 500 *)
C7_Witness ==
  \E x \in Exchanges : x.ai.threw /\ x.response.status = 500

(* C8: when the gateway answers with its error-message shape, the frontend
   adds that message to the conversation as an agent message by the path of a
   normal reply (converted, replacing the placeholder), and takes no failure
   path (exception, toast, streamingError). *)
C8_ErrorRenderedAsReply ==
  (/\ front.pc = "idle"
   /\ front.ended = "response"
   /\ exchanges # <<>>
   /\ CarriesError(exchanges[1].response))
    => (/\ messages # <<>>
        /\ messages[Len(messages)] = ConvertCLIMessage(exchanges[1].response.msgs[1])
        /\ streamingErrorMessage = ""
        /\ toasts = <<>>)

----------------------------------------------------------------------------
(* Helpers for stating properties of a turn's tool processing *)

(* The tool-call requests of the turn, in the order of the AI reply *)
Requests ==
  IF turn.proc = "cli" THEN reply
  ELSE IF turn.proc = "endpoint" THEN Flatten(reply)
  ELSE <<>>

IsToolMessage(msg) == msg.role = "tool"

ToolMessagesOf(msgs) == SelectSeq(msgs, IsToolMessage)

(* The results collected so far: toolResults entries / tool messages *)
ToolEntries ==
  IF turn.proc = "cli" THEN toolResults ELSE ToolMessagesOf(processedMessages)

LoopOver == turn.proc \in {"cli", "endpoint"} /\ turn.pc \in {"summary", "done"}

TaggedSuccess(r) == IF turn.proc = "cli" THEN r.success ELSE ~r.tool_call_error

SameRequest(r, req) ==
  IF turn.proc = "cli" THEN r.toolName = req.name ELSE r.tool_call_id = req.id

(* C2: once the tool loop of a turn is over, there are exactly as many
   results as the AI reply had tool-call requests, the k-th result belongs to
   the k-th request, and it is tagged success exactly when that call
   succeeded (failure when it threw, failed, or named a tool that is not in
   the catalogue). *)
C2_NoSilentDrop ==
  LoopOver =>
    /\ Len(ToolEntries) = Len(Requests)
    /\ \A k \in 1..Len(Requests) :
         k <= Len(ToolEntries) =>
           /\ SameRequest(ToolEntries[k], Requests[k])
           /\ TaggedSuccess(ToolEntries[k]) <=> (settledAs[k] = "success")

PositionOf(id) == CHOOSE k \in 1..Len(Requests) : Requests[k].id = id

InRequestOrder(msgs) ==
  LET tms == ToolMessagesOf(msgs)
  IN  \A a, b \in 1..Len(tms) :
        a < b => PositionOf(tms[a].tool_call_id) < PositionOf(tms[b].tool_call_id)

(* C3: at every moment the collected results are in the order of the
   requests of the AI reply: in the CLI the k-th toolResults entry is the
   result of the k-th tool call; in the endpoint the tool messages pushed and
   emitted follow the order of their requests, however long each call took. *)
C3_RequestOrder ==
  /\ turn.proc = "cli" =>
       \A k \in 1..Len(toolResults) :
         k <= Len(reply) /\ toolResults[k].toolName = reply[k].name
  /\ turn.proc = "endpoint" =>
       InRequestOrder(processedMessages) /\ InRequestOrder(emitted)

(* C3 witness: the endpoint has emitted two tool messages of which the
   first request's call took longer than the second's. *)
C3_Witness ==
  /\ turn.proc = "endpoint" /\ turn.pc = "done"
  /\ LET tms == ToolMessagesOf(emitted)
     IN  /\ Len(tms) >= 2
         /\ ~tms[1].tool_call_error /\ ~tms[2].tool_call_error
         /\ tms[1].metrics.time > tms[2].metrics.time
         /\ tms[1].tool_call_id = Requests[1].id
         /\ tms[2].tool_call_id = Requests[2].id

(* The entries of the tool_calls of assistant messages before index k of
   msgs whose id is the tool_call_id of msgs[k] *)
LinksOf(msgs, k) ==
  UNION {{<<a, e>> : e \in {x \in 1..Len(msgs[a].tool_calls) :
                              msgs[a].tool_calls[x].id = msgs[k].tool_call_id}} :
         a \in {y \in 1..(k - 1) : msgs[y].role = "assistant" /\ HasToolCalls(msgs[y])}}

Linked(msgs) ==
  \A k \in 1..Len(msgs) :
    IsToolMessage(msgs[k]) =>
      "tool_call_id" \in DOMAIN msgs[k] /\ Cardinality(LinksOf(msgs, k)) = 1

(* C4: in every message sequence built or emitted for a turn (documented
   endpoint and example handler), each tool-role message carries a
   tool_call_id equal to the id of exactly one tool_calls entry of exactly
   one assistant message that precedes it. *)
C4_ToolMessageLinked == Linked(processedMessages) /\ Linked(emitted)

(* C4 witness: the endpoint has emitted a sequence with two assistant
   messages carrying tool_calls, each followed by a tool message. *)
C4_Witness ==
  /\ turn.proc = "endpoint" /\ turn.pc = "done"
  /\ \E a, b, c, d \in 1..Len(emitted) :
       /\ a < b /\ b < c /\ c < d
       /\ emitted[a].role = "assistant" /\ HasToolCalls(emitted[a])
       /\ IsToolMessage(emitted[b])
       /\ emitted[b].tool_call_id = emitted[a].tool_calls[1].id
       /\ emitted[c].role = "assistant" /\ HasToolCalls(emitted[c])
       /\ IsToolMessage(emitted[d])
       /\ emitted[d].tool_call_id = emitted[c].tool_calls[1].id

----------------------------------------------------------------------------
(* Routing properties of /api/tools/call *)

(* C11: a request whose name no case label matches is answered in the step
   that receives it with the failure 'Unknown tool: <name>', with no
   initialize, callTool or other adapter call logged, and that step leaves
   every connected flag and every client's availability as it was. *)
C11_UnknownTool ==
  [][\A s \in Slots :
       (calls'[s] # calls[s] /\ calls'[s].name \in UnhandledNames) =>
         /\ calls'[s].pc = "done"
         /\ calls'[s].ops = <<>>
         /\ calls'[s].response =
              <<[status |-> 500,
                 body |-> [success |-> FALSE,
                           error |-> "Unknown tool: " \o calls'[s].name,
                           tool |-> calls'[s].name]]>>
         /\ connected' = connected
         /\ client' = client]_vars

(* C11 witness: an unknown tool was answered while a backend was connected *)
C11_Witness ==
  \E s \in Slots :
    /\ Responded(calls[s])
    /\ calls[s].name \in UnhandledNames
    /\ Body(calls[s]).error = "Unknown tool: " \o calls[s].name
    /\ \E b \in Backends : connected[b]

(* The hosted search backend was usable for the request: its flag was read
   true, or the initialize() the request awaited succeeded *)
HostedUsable(c) ==
  \/ \E i \in OpsOf(c, {"readFlag"}) : c.ops[i].ok
  \/ \E i \in OpsOf(c, {"initialize"}) : c.ops[i].ok

(* C12: for both spellings of the web search, a request for which the
   hosted backend was usable and no hosted call threw is answered by the
   hosted adapter (source 'smithery'); a locally sourced answer occurs only
   when the hosted backend was not usable or its call threw. *)
C12_HostedPreferred ==
  \A s \in Slots :
    LET c == calls[s]
    IN  (/\ Responded(c)
         /\ c.name \in SearchNames
         /\ HostedUsable(c)
         /\ \A i \in OpsOf(c, {"callTool"}) : c.ops[i].ok)
        => (Body(c).success /\ Body(c).result.source = "smithery")

AliasesOf(name) == {a \in StockNames \ {name} : Hyphenated(a) = Hyphenated(name)}

WithoutTool(r) == [k \in DOMAIN r \ {"tool"} |-> r[k]]

(* C13: a stock-analysis request answered from a hosted reply called the
   hosted tool its alias spelling would call, and its result has the fields
   and values the alias spelling yields for the same arguments and the same
   hosted reply, apart from the echoed tool name. *)
C13_AliasInvariant ==
  \A s \in Slots :
    LET c == calls[s]
    IN  (Responded(c) /\ c.name \in StockNames /\ Body(c).success) =>
          \A a \in AliasesOf(c.name), raw \in RawKinds :
            (Body(c).result = HostedResult(c.name, raw, c.params)) =>
              /\ c.hosted = <<HostedToolName(a)>>
              /\ WithoutTool(Body(c).result) = WithoutTool(HostedResult(a, raw, c.params))

(* Tools whose local descriptor declares required parameters *)
RequiredParamNames == {"rugcheck", "wallet-balance", "crypto-chat", "brave-search"}

(* C20: a request that lacks a required parameter is answered with a
   failure, and no adapter operation (initialize, callTool, local search,
   AgentHustle call) is made for it. *)
C20_InvalidArguments ==
  \A s \in Slots :
    LET c == calls[s]
    IN  (c.name \in RequiredParamNames /\ c.params = "incomplete") =>
          /\ OpsOf(c, {"initialize", "callTool", "braveSearch", "hustle"}) = {}
          /\ c.pc = "done" => (Responded(c) /\ ~Body(c).success)

Count(c, kind) == Cardinality(OpsOf(c, {kind}))

Before(c, first, second) ==
  \A i \in OpsOf(c, {first}), j \in OpsOf(c, {second}) : i < j

(* C18: a tool invocation makes at most one initialize() attempt, at most
   one hosted callTool attempt and at most one local search attempt, in that
   order; once it has stopped it has responded, and a failed local search is
   answered with a failure instead of being retried. *)
C18_BoundedAttempts ==
  \A s \in Slots :
    LET c == calls[s]
    IN  /\ Count(c, "initialize") <= 1
        /\ Count(c, "callTool") <= 1
        /\ Count(c, "braveSearch") <= 1
        /\ Before(c, "initialize", "callTool")
        /\ Before(c, "callTool", "braveSearch")
        /\ Before(c, "initialize", "braveSearch")
        /\ c.pc = "done" => Responded(c)
        /\ (\E k \in OpsOf(c, {"braveSearch"}) : ~c.ops[k].ok) =>
             (Responded(c) /\ ~Body(c).success)

(* C18 witness: a request probed, called the hosted tool, fell back to the
   local search, and was answered with the local search's failure *)
C18_Witness ==
  \E s \in Slots :
    LET c == calls[s]
    IN  /\ Responded(c)
        /\ Count(c, "initialize") = 1
        /\ Count(c, "callTool") = 1
        /\ \E k \in OpsOf(c, {"braveSearch"}) : ~c.ops[k].ok
        /\ ~Body(c).success

(* C15: under every interleaving of initialize, listTools and callTool, an
   operation uses only the session it opened itself, every open session
   belongs to an operation that is still in flight and has not settled, and
   whenever no operation is in flight no session is open. *)
C15_SessionDiscipline ==
  /\ \A r \in Runners : wire[r].session \in {"none", r}
  /\ \A x \in sessions : wire[x].session = x /\ wire[x].phase \in {"using", "closing"}
  /\ (\A r \in Runners : wire[r].phase = "none") => sessions = {}

(* C15 witness: two operations hold sessions at once, and the request on
   one of them has thrown and its session is being closed *)
C15_Witness ==
  /\ Cardinality(sessions) >= 2
  /\ \E r \in Runners : wire[r].phase = "closing" /\ wire[r].result = "throw"
  /\ \E r \in Runners : wire[r].phase = "using"

(* Entry i of the request's log is a hosted callTool that threw *)
HostedThrew(c, i) == c.ops[i].op = "callTool" /\ ~c.ops[i].ok

(* C14: (a) the step in which a hosted callTool or listTools throws leaves
   the client's availability flag false, and the step in which that failure
   reaches the request handler leaves the server's connected flag false;
   (b) the client's flag turns true again only when the request of an
   initialize() succeeds, and the server's flag only when an initialize()
   returns true; (c) a request that found the backend marked disconnected
   awaited initialize() before any hosted callTool it attempted. *)
C14_MarkedUntilProbed ==
  /\ [](\A s \in AllSlots :
          LET c == calls[s]
          IN  (c.name \in HostedNames /\ c.ops # <<>> /\ ~c.ops[1].ok) =>
                \A j \in OpsOf(c, {"callTool"}) :
                  \E i \in OpsOf(c, {"initialize"}) : i < j)
  /\ [][\A b \in Backends :
          /\ \A r \in Runners :
               (/\ wire[r].phase = "using"
                /\ wire'[r].phase = "closing"
                /\ wire'[r].result = "throw"
                /\ OpOf(r) # "initialize"
                /\ BackendAt(r) = b) => ~client'[b].isAvailable
          /\ \A s \in AllSlots :
               (/\ calls'[s] # calls[s]
                /\ calls'[s].name \in HostedNames
                /\ BackendOf(calls'[s].name) = b) =>
                 LET from == IF calls[s].pc \in {"idle", "done"} THEN 0
                             ELSE Len(calls[s].ops)
                 IN  \A i \in (from + 1)..Len(calls'[s].ops) :
                       HostedThrew(calls'[s], i) =>
                         /\ ~connected'[b]
                         /\ wire[s].phase # "closing" => ~client'[b].isAvailable
          /\ (/\ listing.pc = "listing"
              /\ listing' # listing
              /\ BackendOrder[listing.at] = b
              /\ wire["list"].phase = "connecting" \/ wire["list"].result = "throw")
               => (~connected'[b]
                   /\ (wire["list"].phase = "connecting" => ~client'[b].isAvailable))
          /\ (~client[b].isAvailable /\ client'[b].isAvailable) =>
               \E r \in Runners :
                 /\ OpOf(r) = "initialize"
                 /\ BackendAt(r) = b
                 /\ wire[r].phase = "using"
                 /\ wire'[r].result = "ok"
          /\ (~connected[b] /\ connected'[b]) =>
               \/ ~booted
               \/ \E s \in AllSlots :
                    /\ calls[s].pc = "init"
                    /\ BackendOf(calls[s].name) = b
                    /\ Len(calls'[s].ops) > Len(calls[s].ops)
                    /\ calls'[s].ops[Len(calls[s].ops) + 1] =
                         [op |-> "initialize", ok |-> TRUE, net |-> TRUE]]_vars

(* C14 witness: one request's hosted call threw after contacting the
   service, and another request, finding the backend marked disconnected,
   awaited a successful initialize() and then called the hosted tool *)
C14_Witness ==
  \E s, u \in AllSlots :
    /\ Responded(calls[s])
    /\ \E i \in OpsOf(calls[s], {"callTool"}) : ~calls[s].ops[i].ok /\ calls[s].ops[i].net
    /\ Responded(calls[u])
    /\ calls[u].ops = <<[op |-> "readFlag", ok |-> FALSE, net |-> FALSE],
                        [op |-> "initialize", ok |-> TRUE, net |-> TRUE],
                        [op |-> "callTool", ok |-> TRUE, net |-> TRUE]>>

(* The names whose case awaits callTool when the backend is usable *)
RoutedNames == HostedNames \ {"brave-search"}

(* The request was answered without any callTool reaching the service *)
GaveUp(c) ==
  /\ Responded(c)
  /\ \A i \in OpsOf(c, {"callTool"}) : ~c.ops[i].net

(* C16: with Smithery credentials configured, a request for a hosted tool
   that was answered without its callTool reaching the service (the backend
   was reported unavailable, or callTool was rejected by its availability
   guard) awaited an initialize() that failed. *)
C16_ProbeBeforeGivingUp ==
  \A s \in AllSlots :
    LET c == calls[s]
    IN  (env.SMITHERY /\ c.name \in RoutedNames /\ GaveUp(c)) =>
          \E j \in OpsOf(c, {"initialize"}) : ~c.ops[j].ok

(* The invocations of routed hosted tools completed since the services
   became healthy, in order of completion *)
RoutedSince == SelectSeq(since, LAMBDA x : x.name \in RoutedNames)

(* C17: whatever the connected flag and the availability flag were left at
   by concurrent invocations and list requests, once the hosted service
   answers and requests arrive one at a time, only the first invocation of
   a hosted tool can be answered otherwise than by the hosted adapter. *)
C17_StaleCostsOneCall ==
  (healthy /\ env.SMITHERY) =>
    \A i \in 2..Len(RoutedSince) : RoutedSince[i].by = "hosted"

(* C17 witness: the flags were left stale (connected true, client
   unavailable is the only way a probe-less failure occurs once the service
   is healthy); the first invocation failed, the next two were served *)
C17_Witness ==
  /\ healthy
  /\ env.SMITHERY
  /\ Len(RoutedSince) >= 3
  /\ RoutedSince[1].by = "other"
  /\ RoutedSince[2].by = "hosted"
  /\ RoutedSince[3].by = "hosted"

(* C19: every tool invocation that has been received is eventually
   answered, even when the request on a hosted session or the local search
   API never answers. *)
C19_EventuallyResponds ==
  \A s \in Slots : (calls[s].pc \notin {"idle", "done"}) ~> (calls[s].pc = "done")

(* The parsed payload of an Ordiscan or Stock Analysis result *)
Payload(r) == IF "alerts" \in DOMAIN r THEN r.alerts ELSE r.data

(* C21: the step in which a hosted Ordiscan or Stock Analysis callTool that
   returned text which is not JSON reaches the handler answers 200 with
   success=true and the text wrapped as the payload, and leaves the
   backend's connected flag true. *)
C21_UnparseableWrapped ==
  [][\A s \in Slots :
       (/\ calls[s].pc = "call"
        /\ calls[s].name \in OrdiscanNames \cup StockNames
        /\ wire[s].phase = "closing"
        /\ wire[s].result = "text"
        /\ calls'[s] # calls[s]) =>
         /\ Responded(calls'[s])
         /\ calls'[s].response[1].status = 200
         /\ Body(calls'[s]).success
         /\ Payload(Body(calls'[s]).result) = "wrapped"
         /\ connected'[BackendOf(calls[s].name)]
         /\ connected' = connected]_vars

(* C21 witness: an Ordiscan and a Stock Analysis request can each end with
   the wrapped text as payload while the backend is connected *)
C21_Witness ==
  \E s \in Slots :
    /\ Responded(calls[s])
    /\ calls[s].name \in StockNames
    /\ Body(calls[s]).success
    /\ Payload(Body(calls[s]).result) = "wrapped"
    /\ connected[BackendOf(calls[s].name)]

(* Helpers for stating properties of /api/tools/list *)
NamesOf(tools) == [i \in 1..Len(tools) |-> tools[i].name]

BuiltInOrder == <<"rugcheck", "trending-tokens", "wallet-balance", "crypto-chat">>

ReportedIf(inc, b) == IF b \in inc THEN RemoteTools(b) ELSE <<>>

ExpectedNames(inc, brave) ==
  BuiltInOrder \o ReportedIf(inc, "smithery") \o ReportedIf(inc, "ordiscan")
    \o ReportedIf(inc, "stockAnalysis")
    \o (IF brave THEN <<"brave-search">> ELSE <<>>)

ListAnswered == listing' # listing /\ listing'.pc = "done"

(* C22: the step that answers a list request sends the four built-in tools
   first, then the tools of the Smithery search backend, of Ordiscan and of
   Stock Analysis, each backend's tools in the order it reported them and
   each backend either present or absent, and brave-search last exactly when
   BRAVE_API_KEY is set and smitheryConnected is false at that moment. *)
C22_ListOrder ==
  [][ListAnswered =>
       \E inc \in SUBSET Backends :
         NamesOf(listing'.response[1].body.tools) =
           ExpectedNames(inc, env.BRAVE /\ ~connected'["smithery"])]_vars

(* C22 witness: a response with the tools of Ordiscan and Stock Analysis but
   not of the search backend, and the local brave-search last *)
C22_Witness ==
  /\ listing.pc = "done"
  /\ NamesOf(listing.response[1].body.tools) =
       ExpectedNames({"ordiscan", "stockAnalysis"}, TRUE)

(* C22 second case: every hosted backend listed, brave-search absent *)
C22_WitnessAll ==
  /\ listing.pc = "done"
  /\ NamesOf(listing.response[1].body.tools) = ExpectedNames(Backends, FALSE)

DescriptorFields == {"name", "description", "parameters", "source"}

(* The descriptors of a response that carry the source tag of backend b *)
FromBackend(tools, b) ==
  SelectSeq(tools, LAMBDA d : "source" \in DOMAIN d /\ d.source = SourceTag(b))

(* C23: while list requests interleave with tool invocations that set and
   clear the connectivity flags, every list response holds, for each hosted
   backend, either none of its tools or all the tools it reported, in
   reported order, each with the fields name, description, parameters and
   source filled from the reported tool. *)
C23_AllOrNothing ==
  listing.pc = "done" =>
    \A b \in Backends :
      LET mine == FromBackend(listing.response[1].body.tools, b)
      IN  \/ mine = <<>>
          \/ /\ NamesOf(mine) = RemoteTools(b)
             /\ \A i \in 1..Len(mine) :
                  /\ DOMAIN mine[i] = DescriptorFields
                  /\ mine[i].description = "tool.description"
                  /\ mine[i].parameters = "tool.inputSchema"

(* C23 witness: a response lists the search backend's tools although a tool
   invocation has cleared that backend's flag in the meantime, and omits
   Ordiscan's *)
C23_Witness ==
  /\ listing.pc = "done"
  /\ FromBackend(listing.response[1].body.tools, "smithery") # <<>>
  /\ FromBackend(listing.response[1].body.tools, "ordiscan") = <<>>
  /\ ~connected["smithery"]
  /\ \E i \in OpsOf(calls["s1"], {"callTool"}) : ~calls["s1"].ops[i].ok

(* C26: every descriptor of a list response has the four fields name,
   description, parameters and source. *)
C26_DescriptorComplete ==
  listing.pc = "done" =>
    \A i \in 1..Len(listing.response[1].body.tools) :
      DOMAIN listing.response[1].body.tools[i] = DescriptorFields

ChatExchanges == {x \in Exchanges : x.endpoint = "chat"}

(* C24: two chat requests with the same message lead to the same
   client.chat call, whatever their sessionId, their history and the
   requests handled before them; when the AI backend also delivers the same
   and the clock reads the same, the responses are equal; and every answer
   of the session-listing endpoint is the empty list. *)
C24_Stateless ==
  /\ \A x, y \in ChatExchanges :
       (x.body.message = y.body.message) =>
         /\ x.call = y.call
         /\ (x.ai = y.ai /\ x.at = y.at) => x.response = y.response
  /\ \A x \in Exchanges : (x.endpoint = "sessions") => x.response = <<>>

(* C24 witness: two answered chat requests with the same message, different
   sessionId and history, the same AI answer and clock reading, followed by
   a session listing *)
C24_Witness ==
  /\ Len(exchanges) = 3
  /\ exchanges[1].body.message = exchanges[2].body.message
  /\ exchanges[1].body.sessionId # exchanges[2].body.sessionId
  /\ exchanges[1].body.history # exchanges[2].body.history
  /\ exchanges[1].ai = exchanges[2].ai
  /\ exchanges[1].at = exchanges[2].at
  /\ exchanges[3].endpoint = "sessions"

(* C25: in the message sequence emitted for a turn, every tool message has
   a created_at strictly greater than that of the message before it, which
   is the assistant message that requested it or the previous tool message
   of the same assistant message. *)
C25_CreatedAtIncreasing ==
  \A j \in 2..Len(emitted) :
    (emitted[j].role = "tool") => emitted[j].created_at > emitted[j - 1].created_at

(* The other spelling of the alias pair a written name belongs to *)
OtherSpellings(written) ==
  IF written \in SearchNames THEN SearchNames \ {written} ELSE AliasesOf(written)

(* C27: whatever availableTools holds, the name parseToolCalls returned for
   a written tool call is the name it returns for the other spelling of the
   same alias pair (brave-search / brave_web_search, hyphen / underscore
   forms of a stock tool name). *)
C27_AliasesAgree ==
  \A i \in 1..Len(parsed) :
    \A other \in OtherSpellings(parsed[i].written) :
      ParsedName(other, availableTools) = parsed[i].name

(* The tool loop of handleChatMode ends at this step *)
CliLoopEnds ==
  turn.proc = "cli" /\ turn.pc \in {"chat", "tools"} /\ turn'.pc \notin {"chat", "tools"}

(* The follow-up summary request is sent at this step *)
SummarySent == turn'.proc = "cli" /\ turn'.pc = "summary" /\ turn.pc # "summary"

(* The prompt names every tool call of the reply once, with its outcome *)
CoversAll(prompt, toolCalls, results) ==
  /\ prompt.executed = Len(toolCalls)
  /\ Len(prompt.successful) + Len(prompt.failed) = Len(toolCalls)
  /\ Len(results) = Len(toolCalls)
  /\ \A k \in 1..Len(toolCalls) :
       /\ results[k].toolName = toolCalls[k].name
       /\ IF results[k].success
          THEN \E e \in 1..Len(prompt.successful) : prompt.successful[e] = results[k]
          ELSE \E e \in 1..Len(prompt.failed) : prompt.failed[e] = results[k]

C28_Step ==
  /\ CliLoopEnds => (SummarySent <=> Len(reply') >= 1)
  /\ SummarySent =>
       /\ CliLoopEnds
       /\ turn'.inflight = {} /\ turn'.i = Len(reply') + 1
       /\ CoversAll(FollowUpPrompt(toolResults', hasErrors'), reply', toolResults')
  /\ (turn.proc = "cli" /\ turn.pc = "summary") =>
       /\ turn'.pc \in {"summary", "done"}
       /\ <<reply, toolResults, hasErrors, settledAs>>' = <<reply, toolResults, hasErrors, settledAs>>
  /\ (turn.proc = "cli" /\ turn.pc = "done") =>
       (turn'.proc = "cli" => turn'.pc = "done")

(* C28: in a CLI chat turn the follow-up summary request is sent when the
   tool loop ends exactly if the reply had at least one parsed tool call; it
   is sent with no call in flight and its prompt covers the result of every
   tool call, successful or failed; while the summary is awaited and after
   it nothing more is executed and no second request is sent; and every
   turn reaches its end. *)
C28_OneSummary ==
  /\ [][C28_Step]_vars
  /\ (turn.proc = "cli") ~> (turn.proc = "cli" /\ turn.pc = "done")

(* C28 witness: the summary is awaited for a reply with two tool calls, one
   that succeeded and one that failed *)
C28_Witness ==
  /\ turn.proc = "cli" /\ turn.pc = "summary"
  /\ Len(reply) = 2 /\ Len(toolResults) = 2
  /\ toolResults[1].success /\ ~toolResults[2].success

(* The runner takes a step *)
Acting(r) ==
  \/ wire'[r] # wire[r]
  \/ r \in AllSlots /\ calls'[r] # calls[r]
  \/ r = "list" /\ listing' # listing

(* The hosted backend the runner's step is about: that of the tool the
   request names, or of the list section whose listTools settles *)
StepBackends(r) ==
  IF r = "list"
  THEN IF listing.pc = "listing" THEN {BackendOrder[listing.at]} ELSE {}
  ELSE {BackendOf(calls'[r].name)}

Untouched(b) == connected'[b] = connected[b] /\ client'[b] = client[b]

C29_Step ==
  /\ (~booted /\ booted') =>
       /\ \A b \in Backends : ~CanProbe(b, env, client) => Untouched(b)
       /\ \A b \in Backends, ok \in BOOLEAN : \A o \in Backends \ {b} :
            LET p == ProbeSettled(b, ok, connected, client)
            IN  p.connected[o] = connected[o] /\ p.client[o] = client[o]
  /\ booted =>
       /\ \A r \in Runners :
            Acting(r) => \A o \in Backends \ StepBackends(r) : Untouched(o)
       /\ (connected' # connected \/ client' # client) => \E r \in Runners : Acting(r)

(* C29: a step of a request changes the connected flag and the client
   availability of no hosted backend other than the one the request's tool
   (or the list section being settled) belongs to, whether the step is a
   failed call, a failed listing or an initialize; at startup an initialize
   that is skipped changes nothing and one that runs leaves the other
   backends' flag and client as they were. *)
C29_PerBackend == [][C29_Step]_vars

(* C29 witness: an Ordiscan call that found its flag set has failed and
   cleared it, while the web search backend is still marked connected *)
C29_Witness ==
  /\ calls["s1"].pc = "done" /\ calls["s1"].name = "ordiscan_main"
  /\ \E i \in 1..Len(calls["s1"].ops) :
       calls["s1"].ops[i].op = "readFlag" /\ calls["s1"].ops[i].ok
  /\ \E i \in 1..Len(calls["s1"].ops) :
       calls["s1"].ops[i].op = "callTool" /\ ~calls["s1"].ops[i].ok
  /\ ~connected["ordiscan"] /\ connected["smithery"] /\ connected["stockAnalysis"]

(* The linkage a backend message carries: its tool calls by id and name, or
   the call it answers *)
Linkage(msg) ==
  [calls |-> IF "tool_calls" \in DOMAIN msg
             THEN [e \in 1..Len(msg.tool_calls) |->
                     <<msg.tool_calls[e].id, msg.tool_calls[e].function.name>>]
             ELSE <<>>,
   answers |-> IF "tool_call_id" \in DOMAIN msg
               THEN <<msg.tool_call_id, msg.tool_name>> ELSE <<>>]

(* C30: every backend message that was converted to Agent UI form and back
   has its role, content and created_at, the ids and names of all its tool
   calls, and the tool_call_id and tool_name it answers. *)
C30_RoundTrip ==
  \A i \in 1..Len(sentHistory) :
    /\ sentHistory[i].role = cliResponse[i].role
    /\ sentHistory[i].content = cliResponse[i].content
    /\ sentHistory[i].created_at = cliResponse[i].created_at
    /\ Linkage(sentHistory[i]) = Linkage(cliResponse[i])

(* An agent message that carries no content *)
EmptyAgent(m) == m.role = "agent" /\ m.content = ""

(* Message i is the flagged reply of a failed exchange: it is the last
   message and it follows the user message of that exchange *)
FailedPairAt(i) ==
  /\ i = Len(messages) /\ i >= 2
  /\ IsErrorAgent(messages[i])
  /\ messages[i - 1].role = "user"

(* C31: whenever no request of the chat handler is in flight, isStreaming
   is false and an agent message without content is the flagged last
   message of a failed exchange, directly after its user message; at every
   moment a message flagged streamingError is the last message and follows
   a user message, so there is never more than one, and while a later
   request is being sent none is left. *)
C31_SettledStore ==
  /\ front.pc = "idle" =>
       /\ ~isStreaming
       /\ \A i \in 1..Len(messages) : EmptyAgent(messages[i]) => FailedPairAt(i)
  /\ \A i \in 1..Len(messages) : IsErrorAgent(messages[i]) => FailedPairAt(i)
  /\ front.pc \in {"sending", "responding"} =>
       \A i \in 1..Len(messages) : ~IsErrorAgent(messages[i])

(* C31 witness: an exchange that reached the server failed, the next
   submission removed its pair, and then failed itself before reaching the
   server: the store holds that one flagged pair only *)
C31_Witness ==
  /\ front.pc = "idle" /\ front.ended = "network"
  /\ exchanges # <<>>
  /\ Len(messages) = 2 /\ FailedPairAt(2)

(* The command line handled at this step *)
Handled == IF printed' # printed /\ printed' # <<>> THEN {printed'[1].input} ELSE {}

C32_Step ==
  \A input \in Handled \cap CommandInputs :
    IF CommandOf(input) = "mode" /\ FirstArg(input) \in MODES
    THEN currentMode' = FirstArg(input)
    ELSE currentMode' = currentMode

(* C32: currentMode starts as chat and is always chat, tools or stream; a
   mode command whose first argument is one of the three sets currentMode
   to it, and every other command, a mode command with another argument or
   with none included, leaves currentMode as it was. *)
C32_ModeIsValid ==
  /\ currentMode = "chat"
  /\ [](currentMode \in MODES)
  /\ [][C32_Step]_vars

(* C32 witness: the mode was switched to tools and a mode command with an
   argument that is no mode has been handled since *)
C32_Witness ==
  /\ currentMode = "tools"
  /\ printed # <<>> /\ printed[1].input = "/mode fast" /\ printed[1].out = "Invalid mode"

(* C33: once a chat response has been displayed, a feedback command with
   positive or negative posts the feedback for that response's messageId
   and the server accepts it. *)
C33_FeedbackSubmitted ==
  [][\A input \in Handled \cap CommandInputs :
       (displayed # "null" /\ CommandOf(input) = "feedback"
          /\ FirstArg(input) \in {"positive", "negative"}) =>
         /\ printed'[1].out = "Thank you for your feedback!"
         /\ printed'[1].posted =
              <<[name |-> "feedback", messageId |-> displayed, feedback |-> FirstArg(input)]>>]_vars

(* C34: a run request whose AI backend call failed is answered with a
   run_error event in streaming mode and with status 500 and an error body
   otherwise. *)
C34_RunFailureSignalled ==
  \A i \in 1..Len(exchanges) :
    (exchanges[i].endpoint = "runs" /\ exchanges[i].ai.threw) =>
      IF exchanges[i].response.streamed
      THEN exchanges[i].response.body.event = "run_error"
      ELSE /\ exchanges[i].response.status = 500
           /\ "error" \in DOMAIN exchanges[i].response.body

(* The keys by which the Ordiscan result formatter identifies a result, one
   per branch, and the key a result carries *)
OrdiscanKeys ==
  {"address", "inscription", "token", "rune", "collection", "transaction", "utxo",
   "satoshi"}

UtxoTools == {"ordiscan_utxo_rare_sats", "ordiscan_utxo_sat_ranges"}

TxTools ==
  {"ordiscan_tx_info", "ordiscan_tx_inscription_transfers", "ordiscan_tx_inscriptions",
   "ordiscan_tx_runes"}

KeyedAs(result, key, from) == key \in DOMAIN result /\ result[key] = from

(* C35: a successful Ordiscan result of a utxo tool is keyed utxo from
   params.utxo, that of a transaction tool is keyed transaction from
   params.txid, and each of the formatter's keys is the key of the result
   of at least one of the 29 handled names. *)
C35_KeyMatchesFamily ==
  /\ \A s \in Slots :
       LET c == calls[s]
       IN  (Responded(c) /\ c.name \in OrdiscanNames /\ Body(c).success) =>
             /\ c.name \in UtxoTools => KeyedAs(Body(c).result, "utxo", "params.utxo")
             /\ c.name \in TxTools => KeyedAs(Body(c).result, "transaction", "params.txid")
  /\ \A key \in OrdiscanKeys :
       \E name \in OrdiscanNames, raw \in RawKinds, params \in ParamKinds :
         key \in DOMAIN OrdiscanResult(name, raw, params)

(* The local fallback descriptor is in the list *)
HasLocalBrave(tools) ==
  \E i \in 1..Len(tools) :
    tools[i].name = "brave-search" /\ "source" \in DOMAIN tools[i] /\ tools[i].source = "local"

(* C36: however list requests interleave with tool invocations, a list
   response does not hold tools of the Smithery search backend together
   with the local brave-search descriptor, and with BRAVE_API_KEY set it
   holds one or the other. *)
C36_OneSearchProvider ==
  listing.pc = "done" =>
    LET tools == listing.response[1].body.tools
    IN  /\ ~(FromBackend(tools, "smithery") # <<>> /\ HasLocalBrave(tools))
        /\ env.BRAVE => (FromBackend(tools, "smithery") # <<>> \/ HasLocalBrave(tools))

====
